---- MODULE Spec2Model ----
(***************************************************************************)
(* Verification model of the resilient multi-backend request pipeline of   *)
(* ai-reviewer-tool: provider resolution (src/llm_provider.py) and the     *)
(* top-level analysis calls built on it (src/tools.py).                    *)
(*                                                                         *)
(* Texts (error messages, prompts, replies) are sequences of words; the    *)
(* Python tests  kw in text  and  kw in text.lower()  are computed word by *)
(* word, with HasSub giving the substring relation between the words of    *)
(* the vocabulary.                                                         *)
(***************************************************************************)
EXTENDS Integers, Sequences, FiniteSets, TLC

VARIABLES
    pc,                \* where _setup_llm stands: the provider whose turn it is, "ready", "raised"
    variant,           \* inside a _try_* call: the model variant whose turn it is (0: at its entry)
    llm,               \* LLMProvider.llm: the bound client
    current_provider,  \* LLMProvider.current_provider
    env,               \* observation: what each provider's guards found (library, credential)
    status,            \* observation: how each provider's _try_* call ended
    cur,               \* observation: the calls made by the _try_* call entered last
    netCalls,          \* observation: network calls made by the resolution
    response,          \* what the bound client did on the last LLMProvider.invoke
    reply,             \* what the last LLMProvider.invoke returned to its caller
    tool,              \* the caller: "create_llm_provider", or the last top-level call started
    invocations,       \* LLMProvider.invoke calls made by the last top-level call
    calls,             \* top-level analysis calls started
    resolutions,       \* LLMProvider instances constructed
    result,            \* what the last top-level analysis call returned
    args,              \* the arguments of the last call: code and file_path, and max_tokens
                       \* and overlap of chunk_code
    locals,            \* local values of the last call: the chunks chunk_code returned, the
                       \* results the loop over the chunks obtained, and for a call of
                       \* chunk_code itself the passes of its loop
    crews              \* Crew objects created and kicked off by the last CodeReviewAgents call

vars ==
    <<pc, variant, llm, current_provider, env, status, cur, netCalls, response, reply,
      tool, invocations, calls, resolutions, result, args, locals, crews>>

observation == <<env, status, cur, netCalls>>
callerVars == <<tool, invocations, calls, resolutions, result, args, locals, crews>>

-----------------------------------------------------------------------------
(* Words and texts *)

\* str.lower() on one word of the vocabulary
Lower(w) ==
    CASE w = "Quota" -> "quota"
      [] w = "Rate" -> "rate"
      [] w = "ResourceExhausted" -> "resourceexhausted"
      [] w = "Authentication" -> "authentication"
      [] w = "Failed" -> "failed"
      [] w = "Google" -> "google"
      [] w = "Gemini" -> "gemini"
      [] w = "Test" -> "test"
      [] w = "Code" -> "code"
      [] w = "Review" -> "review"
      [] w = "Security" -> "security"
      [] w = "Performance" -> "performance"
      [] w = "Memory" -> "memory"
      [] w = "Command" -> "command"
      [] w = "Shell" -> "shell"
      [] w = "Path" -> "path"
      [] w = "Unvalidated" -> "unvalidated"
      [] w = "(Python" -> "(python"
      [] w = "Subprocess" -> "subprocess"
      [] w = "Function" -> "function"
      [] w = "Inefficient" -> "inefficient"
      [] w = "Use" -> "use"
      [] w = "Nested" -> "nested"
      [] w = "Consider" -> "consider"
      [] w = "Triple" -> "triple"
      [] w = "O(n3)" -> "o(n3)"
      [] w = "Potential" -> "potential"
      [] w = "Class" -> "class"
      [] w = "Wildcard" -> "wildcard"
      [] w = "Bare" -> "bare"
      [] w = "Found" -> "found"
      [] w = "Syntax" -> "syntax"
      [] w = "You" -> "you"
      [] w = "Analyze" -> "analyze"
      [] w = "Issues" -> "issues"
      [] w = "A" -> "a"
      [] w = "Looks" -> "looks"
      [] w = "Here" -> "here"
      [] w = "None" -> "none"
      [] w = "Fallback" -> "fallback"
      [] OTHER -> w

\* k is a substring of the word w (both as written)
HasSub(w, k) ==
    \/ w = k
    \/ <<w, k>> \in { <<"generate", "rate">>, <<"exceeded:", "exceeded">>,
                      <<"issues", "issue">>, <<"issues.", "issue">>, <<"issues:", "issue">>,
                      <<"errors", "error">>, <<"slow.", "slow">> }

\* Python: phrase in text, phrase a sequence of words
Contains(text, phrase) ==
    \E i \in 1..(Len(text) - Len(phrase) + 1) :
        \A j \in 1..Len(phrase) : HasSub(text[i + j - 1], phrase[j])

\* Python: phrase in text.lower()
ContainsLower(text, phrase) ==
    \E i \in 1..(Len(text) - Len(phrase) + 1) :
        \A j \in 1..Len(phrase) : HasSub(Lower(text[i + j - 1]), phrase[j])

\* a JSON value that may be a list of issue objects, by its shape: "list", "scalar"
\* (a number or null where the list is expected) or "absent"
NoList == [shape |-> "absent", items |-> <<>>]

MetricNames == {"complexity_score", "maintainability_score", "security_score", "performance_score"}

\* a JSON value that may be the metrics object, by its shape: "dict", "scalar" or
\* "absent"; the metric named k is vals[k] / den
NoMetrics == [shape |-> "absent", has |-> {}, vals |-> [k \in MetricNames |-> 0], den |-> 1]

\* the object json.loads builds from a reply: the keys it has, and their values
NoObj == [keys |-> {}, list |-> NoList, metrics |-> NoMetrics, summary |-> <<>>, score |-> 0]

\* a text: its lines (each a sequence of words), its length in characters, whether
\* the span from its first { to its last } is absent, is not JSON, or is a JSON
\* object, and that object
Plain(words, chars) == [lines |-> <<words>>, chars |-> chars, json |-> "none", obj |-> NoObj]

\* the texts of the errors a remote client library raises
ErrTexts ==
    { <<"429", "Quota", "exceeded">>,
      <<"Rate", "limit", "reached">>,
      <<"ResourceExhausted">>,
      <<"Authentication", "failed">> }

-----------------------------------------------------------------------------
(* Provider resolution: LLMProvider.__init__ and _setup_llm *)

\* the provider list of _setup_llm, in its order
providers == <<"HuggingFace", "Google Gemini", "Groq", "OpenAI", "Fallback">>

Remote == {"HuggingFace", "Google Gemini", "Groq", "OpenAI"}

\* position of a provider in the list
Index(p) == CHOOSE i \in 1..Len(providers) : providers[i] = p

\* models_to_try of each provider (HuggingFace: config.get('model', 'bigcode/starcoder'))
models_to_try(p) ==
    CASE p = "HuggingFace" -> <<"bigcode/starcoder">>
      [] p = "Google Gemini" ->
            <<"gemini-2.5-flash-preview-05-20", "gemini-1.5-flash", "gemini-1.5-pro", "gemini-pro">>
      [] p = "Groq" ->
            <<"llama-3.1-8b-instant", "llama3-70b-8192", "llama3-8b-8192", "mixtral-8x7b-32768">>
      [] p = "OpenAI" -> <<"gpt-4o-mini", "gpt-4-turbo", "gpt-3.5-turbo">>

\* the client classes
ClientClass(p) ==
    CASE p = "HuggingFace" -> "HuggingFaceEndpoint"
      [] p = "Google Gemini" -> "ChatGoogleGenerativeAI"
      [] p = "Groq" -> "ChatGroq"
      [] p = "OpenAI" -> "ChatOpenAI"

\* the f-string prefix of current_provider
ProviderPrefix(p) ==
    CASE p = "Google Gemini" -> "google_genai"
      [] p = "Groq" -> "groq"
      [] p = "OpenAI" -> "openai"

NoneClient == [class |-> "None", model |-> ""]
FallbackLLM == [class |-> "FallbackLLM", model |-> "fallback_static_analysis"]
Client(p, i) == [class |-> ClientClass(p), model |-> models_to_try(p)[i]]

\* current_provider values: None is <<>>
NoProvider == <<>>

\* Python truthiness of a client object / of a probe reply
Truthy(l) == l # NoneClient

\* what one model variant does when it is constructed and probed with "Test"
Outcomes ==
    { [kind |-> "probe_ok", text |-> <<>>], [kind |-> "probe_empty", text |-> <<>>] }
    \cup { [kind |-> k, text |-> t] : k \in {"ctor_raise", "probe_raise"}, t \in ErrTexts }

\* the quota test of _try_google_genai (both handlers of a variant use it)
GoogleQuota(error_str) ==
    \/ Contains(error_str, <<"429">>)
    \/ ContainsLower(error_str, <<"quota">>)
    \/ ContainsLower(error_str, <<"rate">>)
    \/ Contains(error_str, <<"ResourceExhausted">>)

\* f"Google Gemini quota exceeded: {e}"
GoogleQuotaMessage(e) == <<"Google", "Gemini", "quota", "exceeded:">> \o e

\* whether an error of variant i ends _try_google_genai: a constructor error goes to
\* the outer handler; a probe error goes to the inner handler, and what that raises
\* goes to the outer handler
GoogleAborts(o) ==
    IF o.kind = "ctor_raise" THEN GoogleQuota(o.text)
    ELSE GoogleQuota(o.text) /\ GoogleQuota(GoogleQuotaMessage(o.text))

AbortsOnAnyError(o) == TRUE
\* _try_groq and _try_openai log every error of a variant and go on with the next
PlainAborts(o) == FALSE

Aborts(p, o) == IF p = "Google Gemini" THEN GoogleAborts(o) ELSE PlainAborts(o)

ProbeCommitsOnAnyReply(o) == o.kind \in {"probe_ok", "probe_empty"}
\* if test_response: (the probe's reply decides the commit)
ProbeCommits(o) == o.kind = "probe_ok"

NeverMissing(present) == TRUE
\* if not <LIB>_AVAILABLE: raise / if not api_key: raise (the guard lets the call go on)
Present(present) == present

\* issubclass(exc, cls) for the exception classes that occur
IsSubclass(exc, cls) ==
    \/ exc = cls
    \/ cls = "Exception" /\ exc \in {"ImportError", "ValueError", "TypeError", "KeyError"}

SetupCatchesValueErrorOnly(exc) == IsSubclass(exc, "ValueError")
\* except Exception as e: (the handler in the loop body of _setup_llm)
SetupCatches(exc) == IsSubclass(exc, "Exception")

\* if self.llm: ... return
SetupReturns(l) == Truthy(l)

\* the provider the loop of _setup_llm goes on with after p
NextOf(p) == providers[Index(p) + 1]

\* the claims' reading of a quota error: its text contains 429, quota or rate
QuotaClassified(text) ==
    \/ Contains(text, <<"429">>)
    \/ ContainsLower(text, <<"quota">>)
    \/ ContainsLower(text, <<"rate">>)

\* kept as observation only for a provider a caller constructs directly
Observe(new, old) == IF tool = "create_llm_provider" THEN new ELSE old

\* the quota test a provider applies to the errors of its variants (Groq and OpenAI
\* apply none; the handler of _setup_llm reads 429, quota and rate for its log)
ClassifiedAsQuota(p, text) ==
    IF p = "Google Gemini" THEN GoogleQuota(text) ELSE QuotaClassified(text)

NoCalls ==
    [p |-> "", ctor |-> 0, net |-> 0, ok |-> FALSE, firstQuota |-> FALSE, quota |-> FALSE]

RaisesAfterNaming(p, exc, how) ==
    /\ pc' = IF SetupCatches(exc) THEN NextOf(p) ELSE "raised"
    /\ variant' = 0
    /\ llm' = llm
    /\ current_provider' = <<p>>
    /\ status' = Observe([status EXCEPT ![p] = how], status)
\* provider_func() raised exc: the handler of _setup_llm goes on with the next provider;
\* no _try_* method assigns current_provider before its return statement
Raises(p, exc, how) ==
    /\ pc' = IF SetupCatches(exc) THEN NextOf(p) ELSE "raised"
    /\ variant' = 0
    /\ UNCHANGED <<llm, current_provider>>
    /\ status' = Observe([status EXCEPT ![p] = how], status)

\* provider_func() returned client l, having set current_provider to cp
Returns(p, l, cp) ==
    /\ llm' = l
    /\ current_provider' = cp
    /\ pc' = IF SetupReturns(l) THEN "ready" ELSE NextOf(p)
    /\ variant' = 0
    /\ status' = Observe([status EXCEPT ![p] = "bound"], status)

\* _test_huggingface_token: [ok, net] for the hub library present or not and the
\* hub's answer to list_models
_test_huggingface_token(hub_available, key, hub_answers) ==
    IF ~hub_available THEN [ok |-> FALSE, net |-> 0]
    ELSE IF ~key THEN [ok |-> FALSE, net |-> 0]
    ELSE [ok |-> hub_answers, net |-> 1]

\* the guards at the entry of a _try_* call: the library flag, then the credential
Guards(p, lib, key, token) ==
    /\ env' = Observe([env EXCEPT ![p] = IF ~lib THEN "no_lib"
                                         ELSE IF ~key THEN "no_credential" ELSE "ok"], env)
    /\ cur' = Observe([NoCalls EXCEPT !.p = p, !.net = token.net], cur)
    /\ netCalls' = Observe(netCalls + token.net, netCalls)
    /\ IF ~Present(lib) THEN Raises(p, "ImportError", "skipped")
       ELSE IF ~Present(key) THEN Raises(p, "ValueError", "skipped")
       ELSE IF ~token.ok THEN Raises(p, "ValueError", "token_rejected")
       ELSE /\ variant' = 1
            /\ UNCHANGED <<pc, llm, current_provider, status>>

\* one turn of the loop over models_to_try of p: construct variant i, probe it
Variant(p, i, o) ==
    LET last == i = Len(models_to_try(p))
        probed == o.kind # "ctor_raise"
        calls1 == [cur EXCEPT !.ctor = @ + 1,
                              !.net = IF probed THEN @ + 1 ELSE @,
                              !.ok = @ \/ o.kind = "probe_ok",
                              !.firstQuota = @ \/ (i = 1 /\ o.kind \in {"ctor_raise", "probe_raise"}
                                                   /\ QuotaClassified(o.text)),
                              !.quota = @ \/ (o.kind \in {"ctor_raise", "probe_raise"}
                                              /\ ClassifiedAsQuota(p, o.text))]
    IN /\ cur' = Observe(calls1, cur)
       /\ netCalls' = Observe(IF probed THEN netCalls + 1 ELSE netCalls, netCalls)
       /\ UNCHANGED env
       /\ IF o.kind \in {"ctor_raise", "probe_raise"}
          THEN IF Aborts(p, o) THEN Raises(p, "ValueError", "quota")
               ELSE IF last THEN Raises(p, "ValueError", "failed")
               ELSE /\ variant' = i + 1
                    /\ UNCHANGED <<pc, llm, current_provider, status>>
          ELSE IF ProbeCommits(o)
          THEN Returns(p, Client(p, i), <<ProviderPrefix(p), models_to_try(p)[i]>>)
          ELSE IF last THEN Raises(p, "ValueError", "failed")
          ELSE /\ variant' = i + 1
               /\ UNCHANGED <<pc, llm, current_provider, status>>

\* _try_huggingface: one variant, config.get('model', 'bigcode/starcoder'); a
\* constructor error is re-raised as it is, a probe error or an empty reply as ValueError
TryHuggingface ==
    /\ pc = "HuggingFace"
    /\ IF variant = 0
       THEN \E lib \in BOOLEAN, key \in BOOLEAN, hub_available \in BOOLEAN, hub_answers \in BOOLEAN :
               Guards("HuggingFace", lib, key,
                      IF Present(lib) /\ Present(key)
                      THEN _test_huggingface_token(hub_available, key, hub_answers)
                      ELSE [ok |-> FALSE, net |-> 0])
       ELSE \E o \in Outcomes :
               /\ cur' = Observe([cur EXCEPT !.ctor = @ + 1,
                                             !.net = IF o.kind # "ctor_raise" THEN @ + 1 ELSE @,
                                             !.ok = o.kind = "probe_ok",
                                             !.firstQuota = o.kind \in {"ctor_raise", "probe_raise"}
                                                            /\ QuotaClassified(o.text)], cur)
               /\ netCalls' = Observe(IF o.kind # "ctor_raise" THEN netCalls + 1 ELSE netCalls,
                                      netCalls)
               /\ UNCHANGED env
               /\ IF o.kind = "ctor_raise" THEN Raises("HuggingFace", "Exception", "ctor_raised")
                  ELSE IF o.kind = "probe_raise"
                  THEN Raises("HuggingFace", "ValueError", "probe_raised")
                  ELSE IF ProbeCommits(o)
                  THEN Returns("HuggingFace", Client("HuggingFace", 1), <<"huggingface">>)
                  ELSE Raises("HuggingFace", "ValueError", "probe_empty")
    /\ UNCHANGED <<response, reply, callerVars>>

NoToken == [ok |-> TRUE, net |-> 0]

TryGoogleGenai ==
    /\ pc = "Google Gemini"
    /\ IF variant = 0
       THEN \E lib \in BOOLEAN, key \in BOOLEAN : Guards("Google Gemini", lib, key, NoToken)
       ELSE \E o \in Outcomes : Variant("Google Gemini", variant, o)
    /\ UNCHANGED <<response, reply, callerVars>>

TryGroq ==
    /\ pc = "Groq"
    /\ IF variant = 0
       THEN \E lib \in BOOLEAN, key \in BOOLEAN : Guards("Groq", lib, key, NoToken)
       ELSE \E o \in Outcomes : Variant("Groq", variant, o)
    /\ UNCHANGED <<response, reply, callerVars>>

TryOpenai ==
    /\ pc = "OpenAI"
    /\ IF variant = 0
       THEN \E lib \in BOOLEAN, key \in BOOLEAN : Guards("OpenAI", lib, key, NoToken)
       ELSE \E o \in Outcomes : Variant("OpenAI", variant, o)
    /\ UNCHANGED <<response, reply, callerVars>>

\* _create_fallback_llm as the last entry of the list: its client is truthy, so
\* _setup_llm returns and the statements after the loop are never reached
CreateFallback ==
    /\ pc = "Fallback"
    /\ llm' = FallbackLLM
    /\ current_provider' = <<"fallback">>
    /\ pc' = "ready"
    /\ UNCHANGED <<variant, observation, response, reply, callerVars>>

\* get_provider_info()
get_provider_info ==
    [provider |-> current_provider,
     available |-> llm # NoneClient,
     fallback_mode |-> current_provider = <<"fallback">>]

-----------------------------------------------------------------------------
(* LLMProvider.invoke *)

\* the prompts a direct caller sends
Prompts ==
    { <<"Test", "prompt">>, <<"Code", "Review", "this">>, <<"check", "Security">>,
      <<"Performance", "please">> }

\* the replies a remote client hands to a direct caller
ContentText == Plain(<<"from", "content">>, 12)
TextText == Plain(<<"from", "text">>, 9)
StrText == Plain(<<"from", "str">>, 8)

NoText == Plain(<<>>, 0)

\* a client reply carrying payload t as its content (AIMessage, or the dict of FallbackLLM)
Reply(kind, t) == [kind |-> kind, has |-> {"content"}, content |-> t, text |-> NoText, str |-> NoText]

\* what a remote client's invoke can do: raise, or return a dict, a str or an object
RemoteResponses ==
    { [kind |-> "raise", has |-> {}, content |-> NoText, text |-> NoText, str |-> NoText] }
    \cup { [kind |-> k, has |-> h, content |-> ContentText, text |-> TextText, str |-> StrText] :
              k \in {"dict", "obj"}, h \in SUBSET {"content", "text"} }
    \cup { [kind |-> "str", has |-> {}, content |-> NoText, text |-> NoText, str |-> StrText] }

FallbackInvokeRaises(prompt) ==
    [kind |-> "raise", has |-> {}, content |-> NoText, text |-> NoText, str |-> NoText]
\* FallbackLLM.invoke(prompt)
FallbackInvoke(prompt) ==
    IF ContainsLower(prompt, <<"code", "review">>)
    THEN Reply("dict", Plain(<<"Fallback", "static", "analysis", "mode:", "Performing", "basic",
                               "code", "analysis", "without", "LLM.">>, 74))
    ELSE IF ContainsLower(prompt, <<"security">>)
    THEN Reply("dict", Plain(<<"Fallback", "security", "analysis:", "Checking", "for", "common",
                               "security", "patterns.">>, 66))
    ELSE IF ContainsLower(prompt, <<"performance">>)
    THEN Reply("dict", Plain(<<"Fallback", "performance", "analysis:", "Identifying", "basic",
                               "performance", "issues.">>, 68))
    ELSE Reply("dict", Plain(<<"Fallback", "analysis", "mode:", "Using", "static", "code",
                               "analysis", "techniques.">>, 62))

\* what self.llm.invoke(prompt) can do, by the bound client
ClientResponses(l, prompt) ==
    IF l = FallbackLLM THEN {FallbackInvoke(prompt)} ELSE RemoteResponses

NoReply == [is |-> "nothing", value |-> NoText]
NoneReply == [is |-> "None", value |-> NoText]
RaisedReply == [is |-> "raised", value |-> NoText]
Value(v) == [is |-> "value", value |-> v]

InvokeCatchesValueErrorOnly(exc) == IsSubclass(exc, "ValueError")
\* except Exception as e: (the handler of LLMProvider.invoke)
InvokeCatches(exc) == IsSubclass(exc, "Exception")

\* LLMProvider.invoke, given what self.llm.invoke(prompt) did
invoke(resp) ==
    IF resp.kind = "raise"
    THEN (IF InvokeCatches("Exception") THEN NoneReply ELSE RaisedReply)
    ELSE IF resp.kind = "dict"
    THEN (IF "content" \in resp.has THEN Value(resp.content)
          ELSE IF "text" \in resp.has THEN Value(resp.text)
          ELSE Value(resp.str))
    ELSE IF resp.kind = "str" THEN Value(resp.str)
    ELSE (IF "content" \in resp.has THEN Value(resp.content)
          ELSE IF "text" \in resp.has THEN Value(resp.text)
          ELSE Value(resp.str))

RebindsToFallbackOnFailure(l, resp) == IF resp.kind = "raise" THEN FallbackLLM ELSE l
\* self.llm after LLMProvider.invoke: the method assigns neither llm nor current_provider
LlmAfterInvoke(l, resp) == l

NoResponse == [kind |-> "nothing", has |-> {}, content |-> NoText, text |-> NoText, str |-> NoText]

\* a caller holding the provider calls LLMProvider.invoke(prompt)
Invoke ==
    /\ tool = "create_llm_provider"
    /\ pc = "ready"
    /\ \E prompt \in Prompts : \E resp \in ClientResponses(llm, prompt) :
          /\ response' = resp
          /\ reply' = invoke(resp)
          /\ llm' = LlmAfterInvoke(llm, resp)
    /\ UNCHANGED <<pc, variant, current_provider, observation, callerVars>>

-----------------------------------------------------------------------------
(* The inputs of the top-level calls: code, file path, prompt templates *)

\* a line of code: its words (whitespace-separated, a blank line has none) and its
\* length in characters
Lblank == [words |-> <<>>, len |-> 0]
Lassign == [words |-> <<"x", "=", "1">>, len |-> 5]
Leval == [words |-> <<"eval(user_input)">>, len |-> 16]
Lshell == [words |-> <<"subprocess.call(cmd,", "shell=True)">>, len |-> 32]
Lprint == [words |-> <<"print(x)">>, len |-> 8]
Ldef == [words |-> <<"def", "f(x):">>, len |-> 9]
Lbroken == [words |-> <<"def", "f(:">>, len |-> 7]
Lmid == [words |-> <<"table", "=", "[0,", "...]">>, len |-> 400]
Lwide == [words |-> <<"blob", "=", "'...'">>, len |-> 2000]
Llong == [words |-> <<"total", "=", "first", "+", "second", "+", "...">>, len |-> 130]

\* the code arguments: code.split('\n') of each, never an empty list
Codes ==
    { <<Lblank>>,
      <<Lassign>>,
      <<Leval, Ldef>>,
      <<Lbroken>>,
      <<Lshell, Lprint, Lblank>>,
      <<Lassign, Llong>>,
      <<Lwide, Lwide, Leval>>,
      <<Lwide, Lmid, Lwide, Lprint>> }

\* a file path: the name, and n for the suffix " (chunk n)" (0: no suffix)
Path(name) == [name |-> name, chunk |-> 0]
ChunkPath(file_path, n) == [name |-> file_path.name, chunk |-> n]
file_paths == { Path("test.py"), Path("app.js") }
NoPath == Path("")

\* file_path.endswith('.py')
EndsWithPy(file_path) == file_path.chunk = 0 /\ file_path.name = "test.py"

\* compile(code, file_path, 'exec') succeeds: no line of the vocabulary is indented,
\* so that a def header has no body
Compiles(code) == \A i \in 1..Len(code) : code[i] \notin {Lbroken, Ldef}

\* the lineno of the SyntaxError that compile raises
SyntaxLine(code) ==
    LET i == CHOOSE k \in 1..Len(code) :
                 /\ code[k] \in {Lbroken, Ldef}
                 /\ \A m \in 1..(k - 1) : code[m] \notin {Lbroken, Ldef}
        rest == { k \in (i + 1)..Len(code) : code[k].words # <<>> }
    IN IF code[i] = Lbroken \/ i = Len(code) THEN i
       ELSE IF rest = {} THEN Len(code) - 1
       ELSE CHOOSE k \in rest : \A m \in rest : k <= m

\* re.search(pattern, line, re.IGNORECASE) for the patterns of the fallback analyzers
\* and the lines of the vocabulary
ReHits ==
    { <<"subprocess.call", Lshell>>, <<"shell=True", Lshell>>, <<"subprocess\\.", Lshell>>,
      <<"eval\\(", Leval>>, <<"print\\s*\\(", Lprint>>,
      <<"def [^(]*\\([^)]*\\):\\s*$", Ldef>> }

\* patterns ending in \s*$ : without re.MULTILINE they match only when nothing but
\* whitespace follows the line in the whole code
AnchoredAtEnd(pattern) ==
    pattern \in { "def [^(]*\\([^)]*\\):\\s*$", "class [^(]*\\([^)]*\\):\\s*$" }

\* re.search(pattern, code, re.IGNORECASE)
Search(pattern, code) ==
    \E i \in 1..Len(code) :
        /\ <<pattern, code[i]>> \in ReHits
        /\ AnchoredAtEnd(pattern) => \A k \in (i + 1)..Len(code) : code[k].words = <<>>

\* the words of a code, line after line
RECURSIVE WordsOf(_)
WordsOf(code) == IF code = <<>> THEN <<>> ELSE Head(code).words \o WordsOf(Tail(code))

\* the default prompt templates, by the words that decide a FallbackLLM reply
Template(name) ==
    CASE name = "code_analysis" ->
            <<"You", "are", "an", "expert", "code", "analyzer.", "Analyze", "for:", "Syntax",
              "errors", "Security", "vulnerabilities", "Performance", "issues", "Code",
              "quality">>
      [] name = "code_improvement" ->
            <<"You", "are", "an", "expert", "code", "improver.", "Issues", "to", "fix:">>
      [] name = "security_analysis" ->
            <<"You", "are", "a", "Security", "expert", "specializing", "in", "code",
              "Security", "analysis.">>
      [] name = "performance_analysis" ->
            <<"You", "are", "a", "Performance", "optimization", "expert.">>
      [] name = "documentation_improvement" ->
            <<"You", "are", "a", "technical", "documentation", "expert.">>

\* prompt.format(code=..., file_path=..., language=...)
FormatPrompt(name, code, file_path) == Template(name) \o <<file_path.name>> \o WordsOf(code)

-----------------------------------------------------------------------------
(* Issues, metrics and result records *)

\* an issue object; line_type tells what the 'line' entry is ("int", "str", "absent"),
\* fix_key names the entry holding the remedy (suggestion, mitigation, optimization)
Issue(type, severity, line, description, fix_key, fix) ==
    [type |-> type, severity |-> severity, line |-> line, line_type |-> "int",
     description |-> description, fix_key |-> fix_key, fix |-> fix]

List(items) == [shape |-> "list", items |-> items]

\* a metrics object with all four scores
Metrics(c, m, s, p) ==
    [shape |-> "dict", has |-> MetricNames,
     vals |-> [k \in MetricNames |->
                  CASE k = "complexity_score" -> c
                    [] k = "maintainability_score" -> m
                    [] k = "security_score" -> s
                    [] k = "performance_score" -> p],
     den |-> 1]

NoSummary == [lines |-> <<>>, truncated |-> FALSE]

\* the dict a top-level call returns: the keys it has, and their values
NoResult ==
    [is |-> "nothing", analysis_type |-> "", keys |-> {}, file_path |-> NoPath,
     issues |-> NoList, metrics |-> NoMetrics, score |-> 0, summary |-> NoSummary,
     notes |-> <<>>, improved_code |-> <<>>, doc_improved |-> FALSE]

\* an exception leaving a function
Raised == [NoResult EXCEPT !.is = "raised"]

\* str.lower() on every word
LowerAll(words) == [i \in 1..Len(words) |-> Lower(words[i])]

\* production_standards, appended by _fallback_analysis and by analyze_code_with_chunking
production_standards ==
    << Issue("best_practice", "medium", 0,
             <<"Follow", "language-specific", "style", "guidelines">>, "suggestion",
             <<"Use", "appropriate", "linters", "and", "formatters">>),
       Issue("best_practice", "medium", 0,
             <<"Implement", "proper", "error", "handling", "patterns">>, "suggestion",
             <<"Use", "language-specific", "exception", "handling", "patterns.">>) >>

-----------------------------------------------------------------------------
(* The static fallback analyzers *)

security_patterns ==
    << [re |-> "subprocess.call", description |-> <<"Command", "injection", "vulnerability">>],
       [re |-> "shell=True", description |-> <<"Shell", "injection", "risk">>],
       [re |-> "eval\\(", description |-> <<"Code", "injection", "vulnerability">>],
       [re |-> "exec\\(", description |-> <<"Code", "execution", "vulnerability">>],
       [re |-> "open\\(.*input", description |-> <<"Path", "traversal", "vulnerability">>],
       [re |-> "input\\(", description |-> <<"Unvalidated", "user", "input">>],
       [re |-> "raw_input\\(", description |-> <<"Unvalidated", "user", "input", "(Python", "2)">>],
       [re |-> "subprocess\\.",
        description |-> <<"Subprocess", "usage", "-", "potential", "security", "risk">>],
       [re |-> "execute_command",
        description |-> <<"Function", "name", "suggests", "command", "execution">>],
       [re |-> "read_file",
        description |-> <<"Function", "name", "suggests", "file", "reading", "without",
                          "validation">>] >>

performance_patterns ==
    << [re |-> "result \\+= str\\(", description |-> <<"Inefficient", "string", "concatenation">>],
       [re |-> "for.*in range\\(len\\(", description |-> <<"Use", "enumerate", "instead">>],
       [re |-> "for.*for.*in.*range",
        description |-> <<"Nested", "loops", "may", "be", "inefficient">>],
       [re |-> "\\.append\\(.*\\)", description |-> <<"Consider", "list", "comprehension">>],
       [re |-> "list\\(range\\(", description |-> <<"Consider", "direct", "iteration">>],
       [re |-> "for i in range\\(100\\):...for k in range\\(100\\)",
        description |-> <<"Triple", "nested", "loops", "-", "O(n3)", "complexity">>],
       [re |-> "while True:\\s*\\n\\s*data\\.append",
        description |-> <<"Potential", "infinite", "loop", "with", "memory", "leak">>],
       [re |-> "inefficient_function",
        description |-> <<"Function", "name", "suggests", "performance", "issues">>] >>

syntax_patterns ==
    << [re |-> "def [^(]*\\([^)]*\\):\\s*$", description |-> <<"Function", "missing", "docstring">>],
       [re |-> "class [^(]*\\([^)]*\\):\\s*$", description |-> <<"Class", "missing", "docstring">>],
       [re |-> "import \\*",
        description |-> <<"Wildcard", "import", "-", "specify", "imports", "explicitly">>],
       [re |-> "except:",
        description |-> <<"Bare", "except", "clause", "-", "specify", "exception", "type">>],
       [re |-> "print\\s*\\(",
        description |-> <<"Consider", "using", "logging", "instead", "of", "print">>] >>

\* the patterns of a list that re.search finds in the code, in the list's order
Found(patterns, code) ==
    LET Hit(pt) == Search(pt.re, code) IN SelectSeq(patterns, Hit)

\* _check_syntax_errors(code, file_path)
_check_syntax_errors(code, file_path) ==
    IF EndsWithPy(file_path) /\ ~Compiles(code)
    THEN << Issue("syntax", "critical", SyntaxLine(code),
                  <<"Syntax", "error:", "invalid", "syntax">>, "suggestion",
                  <<"Fix", "the", "syntax", "error", "in", "the", "code">>) >>
    ELSE <<>>

\* the issues _fallback_analysis collects, before production_standards
PatternIssues(code) ==
    LET sec == Found(security_patterns, code)
        perf == Found(performance_patterns, code)
        synt == Found(syntax_patterns, code)
    IN [i \in 1..Len(sec) |->
            Issue("security", "high", 1, sec[i].description, "suggestion",
                  <<"Review", "and", "fix">> \o LowerAll(sec[i].description))]
       \o [i \in 1..Len(perf) |->
            Issue("performance", "medium", 1, perf[i].description, "suggestion",
                  <<"Optimize">> \o LowerAll(perf[i].description))]
       \o [i \in 1..Len(synt) |->
            Issue("maintainability", "low", 1, synt[i].description, "suggestion",
                  <<"Improve">> \o LowerAll(synt[i].description))]

Min(a, b) == IF a < b THEN a ELSE b
Max(a, b) == IF a > b THEN a ELSE b

\* the number of lines with something else than whitespace
NonEmptyLines(code) == Cardinality({ i \in 1..Len(code) : code[i].words # <<>> })

\* _fallback_analysis(code, file_path)
_fallback_analysis(code, file_path) ==
    LET issues == _check_syntax_errors(code, file_path) \o PatternIssues(code)
                  \o production_standards
        complexity == NonEmptyLines(code)
        Typed(t) == \E i \in 1..Len(issues) : issues[i].type = t
    IN [NoResult EXCEPT
          !.is = "record",
          !.keys = {"issues", "metrics", "file_path", "analysis_type"},
          !.issues = List(issues),
          !.metrics = Metrics(Min(10, Max(1, complexity \div 10)),
                              IF issues = <<>> THEN 5 ELSE Max(1, 5 - Len(issues)),
                              IF Typed("security") THEN 3 ELSE 5,
                              IF Typed("performance") THEN 4 ELSE 5),
          !.file_path = file_path,
          !.analysis_type = "fallback_analysis"]

\* _fallback_security_analysis(code, file_path)
_fallback_security_analysis(code, file_path) ==
    LET sec == Found(security_patterns, code)
        security_issues ==
            [i \in 1..Len(sec) |->
                Issue("security", "high", 1, sec[i].description, "mitigation",
                      <<"Review", "and", "fix">> \o LowerAll(sec[i].description))]
    IN [NoResult EXCEPT
          !.is = "record",
          !.keys = {"security_issues", "overall_security_score", "file_path", "analysis_type",
                    "recommendations"},
          !.issues = List(security_issues),
          !.score = IF security_issues = <<>> THEN 10 ELSE Max(1, 10 - Len(security_issues)),
          !.file_path = file_path,
          !.analysis_type = "fallback_security",
          !.notes = IF security_issues = <<>>
                    THEN << <<"No", "security", "issues", "detected">> >>
                    ELSE << <<"Found", ToString(Len(security_issues)), "security", "issues">> >>]

\* _fallback_performance_analysis(code, file_path)
_fallback_performance_analysis(code, file_path) ==
    LET perf == Found(performance_patterns, code)
        performance_issues ==
            [i \in 1..Len(perf) |->
                Issue("performance", "medium", 1, perf[i].description, "optimization",
                      <<"Optimize">> \o LowerAll(perf[i].description))]
    IN [NoResult EXCEPT
          !.is = "record",
          !.keys = {"performance_issues", "overall_performance_score", "file_path",
                    "analysis_type", "optimization_opportunities"},
          !.issues = List(performance_issues),
          !.score = IF performance_issues = <<>> THEN 10
                    ELSE Max(1, 10 - Len(performance_issues)),
          !.file_path = file_path,
          !.analysis_type = "fallback_performance",
          !.notes = IF performance_issues = <<>>
                    THEN << <<"No", "performance", "issues", "detected">> >>
                    ELSE << <<"Found", ToString(Len(performance_issues)), "performance",
                              "issues">> >>]

-----------------------------------------------------------------------------
(* chunk_code *)

\* len(line) // 4
line_tokens(line) == line.len \div 4

\* if overlap_length + line_tokens <= overlap:
Fits(overlap_length, tokens, overlap) == overlap_length + tokens <= overlap

ExceedsOrFills(current_length, tokens, max_tokens) == current_length + tokens >= max_tokens
\* current_length + line_tokens > max_tokens
Exceeds(current_length, tokens, max_tokens) == current_length + tokens > max_tokens

\* the loop  for i in range(len(current_chunk) - 1, -1, -1)  of chunk_code: the lines
\* kept as overlap, their length, and the value the loop leaves in line_tokens (that
\* of the last line it looked at)
RECURSIVE OverlapScan(_, _, _, _, _)
OverlapScan(current_chunk, i, overlap, overlap_lines, overlap_length) ==
    IF i = 0
    THEN [lines |-> overlap_lines, length |-> overlap_length,
          line_tokens |-> line_tokens(current_chunk[1])]
    ELSE LET t == line_tokens(current_chunk[i])
         IN IF Fits(overlap_length, t, overlap)
            THEN OverlapScan(current_chunk, i - 1, overlap,
                             <<current_chunk[i]>> \o overlap_lines, overlap_length + t)
            ELSE [lines |-> overlap_lines, length |-> overlap_length, line_tokens |-> t]

NewChunkWithoutLine(overlap_lines, line) == overlap_lines
\* current_chunk = overlap_lines + [line]
NewChunk(overlap_lines, line) == Append(overlap_lines, line)

\* one pass of the loop  for line in lines  of chunk_code; st holds chunks,
\* current_chunk and current_length
ChunkStep(st, line, max_tokens, overlap) ==
    IF Exceeds(st.current_length, line_tokens(line), max_tokens) /\ st.current_chunk # <<>>
    THEN LET o == OverlapScan(st.current_chunk, Len(st.current_chunk), overlap, <<>>, 0)
         IN [chunks |-> Append(st.chunks, st.current_chunk),
             current_chunk |-> NewChunk(o.lines, line),
             current_length |-> o.length + o.line_tokens]
    ELSE [chunks |-> st.chunks,
          current_chunk |-> Append(st.current_chunk, line),
          current_length |-> st.current_length + line_tokens(line)]

\* the loop  for line in lines  of chunk_code, from line k on: the values of chunks,
\* current_chunk and current_length after each pass
RECURSIVE ChunkLoop(_, _, _, _, _)
ChunkLoop(lines, k, max_tokens, overlap, st) ==
    IF k > Len(lines) THEN <<>>
    ELSE LET after == ChunkStep(st, lines[k], max_tokens, overlap)
         IN <<after>> \o ChunkLoop(lines, k + 1, max_tokens, overlap, after)

\* the passes of the loop of chunk_code(code, max_tokens, overlap), which starts from
\* chunks = [], current_chunk = [], current_length = 0
ChunkPasses(code, max_tokens, overlap) ==
    ChunkLoop(code, 1, max_tokens, overlap,
              [chunks |-> <<>>, current_chunk |-> <<>>, current_length |-> 0])

\* the statements of chunk_code after its loop: the last current_chunk is added when
\* it is not empty, and  return chunks if chunks else [code]
ChunksAfterLoop(passes, code) ==
    LET last == passes[Len(passes)]
        chunks == IF last.current_chunk # <<>> THEN Append(last.chunks, last.current_chunk)
                  ELSE last.chunks
    IN IF chunks # <<>> THEN chunks ELSE <<code>>

\* chunk_code(code, max_tokens, overlap): the chunks, each the list of its lines
chunk_code(code, max_tokens, overlap) ==
    ChunksAfterLoop(ChunkPasses(code, max_tokens, overlap), code)

\* the arguments analyze_code_with_chunking passes to chunk_code
ChunkMaxTokens == 800
ChunkOverlap == 100

-----------------------------------------------------------------------------
(* The replies of a backend to the prompts of the top-level calls *)

\* a text that is a JSON object
Json(obj, chars) == [lines |-> <<>>, chars |-> chars, json |-> "object", obj |-> obj]

\* a text with lines and no JSON object in it
Text(lines, chars, json) == [lines |-> lines, chars |-> chars, json |-> json, obj |-> NoObj]

JsonReview ==
    Json([NoObj EXCEPT
            !.keys = {"issues", "metrics", "summary"},
            !.list = List(<< Issue("security", "high", 3, <<"Use", "of", "eval">>, "suggestion",
                                   <<"Use", "ast.literal_eval">>) >>),
            !.metrics = Metrics(4, 7, 2, 6),
            !.summary = <<"One", "issue", "found">>], 180)

JsonEmpty == Json(NoObj, 2)

\* 'issues' is a number and 'metrics' a list
JsonBadShapes ==
    Json([NoObj EXCEPT
            !.keys = {"issues", "metrics"},
            !.list = [shape |-> "scalar", items |-> <<>>],
            !.metrics = [NoMetrics EXCEPT !.shape = "scalar"]], 30)

\* an issue whose 'line' is a string
JsonStrLine ==
    Json([NoObj EXCEPT
            !.keys = {"issues"},
            !.list = List(<< [Issue("performance", "low", 12, <<"Slow", "loop">>, "suggestion",
                                    <<>>) EXCEPT !.line_type = "str"] >>)], 80)

\* a 'metrics' object with one of the four scores
JsonPartialMetrics ==
    Json([NoObj EXCEPT
            !.keys = {"metrics"},
            !.metrics = [shape |-> "dict", has |-> {"complexity_score"},
                         vals |-> [k \in MetricNames |->
                                      IF k = "complexity_score" THEN 8 ELSE 0],
                         den |-> 1]], 36)

JsonSecurity ==
    Json([NoObj EXCEPT
            !.keys = {"security_issues", "overall_security_score", "recommendations"},
            !.list = List(<< Issue("security", "critical", 1, <<"Code", "injection">>,
                                   "mitigation", <<"Validate", "input">>) >>),
            !.score = 2], 150)

JsonPerformance ==
    Json([NoObj EXCEPT
            !.keys = {"performance_issues", "overall_performance_score"},
            !.list = List(<< Issue("performance", "medium", 2, <<"Nested", "loops">>,
                                   "optimization", <<"Use", "a", "dict">>) >>),
            !.score = 6], 140)

MalformedWithKeyword == Text(<< <<"{", "issues:", "[", "broken", "}">> >>, 20, "malformed")
MalformedNoKeyword == Text(<< <<"{", "oops", "}">> >>, 8, "malformed")

PlainWithKeywords ==
    Text(<< <<"Found", "a", "Security", "vulnerability", "in", "line", "4.">>,
            <<"suggestion:", "use", "ast.literal_eval">>,
            <<>>,
            <<"Memory", "usage", "is", "slow.">>,
            <<"fix:", "stream", "the", "file">> >>, 118, "none")

SecuritySentence ==
    Text(<< <<"I", "found", "a", "security", "vulnerability", "on", "line", "4.">> >>, 43, "none")

PlainNoKeyword == Text(<< <<"Looks", "good", "to", "me.">> >>, 17, "none")

LongReport == Text(<< <<"A", "long", "report", "on", "every", "bug", "...">> >>, 260, "none")

CodeBlock ==
    Text(<< <<"Here", "is", "the", "code:">>, <<"[fence]python">>, <<"x", "=", "2">>, <<"[fence]">> >>,
         37, "none")

ToolTexts ==
    { JsonReview, JsonEmpty, JsonBadShapes, JsonStrLine, JsonPartialMetrics, JsonSecurity,
      JsonPerformance, MalformedWithKeyword, MalformedNoKeyword, PlainWithKeywords,
      SecuritySentence, PlainNoKeyword, LongReport, CodeBlock, NoText }

\* what a remote client's invoke can do with the prompt of a top-level call
ToolResponses ==
    { [kind |-> "raise", has |-> {}, content |-> NoText, text |-> NoText, str |-> NoText] }
    \cup { Reply("obj", t) : t \in ToolTexts }
    \cup { [kind |-> "str", has |-> {}, content |-> NoText, text |-> NoText, str |-> t] :
              t \in {JsonReview, PlainWithKeywords} }

\* str(None)
StrOfNone == Plain(<<"None">>, 4)

\* response_text of the top-level calls: the reply if it is a str, str(response) otherwise
response_text(r) == IF r.is = "None" THEN StrOfNone ELSE r.value

\* json_start != -1 and json_end > json_start
HasJsonSpan(t) == t.json # "none"

\* any(keyword in line.lower() for keyword in keywords), line a sequence of words
LineHasKeyword(line, keywords) ==
    \E j \in 1..Len(line) : \E k \in keywords : HasSub(Lower(line[j]), k)

\* any(keyword in response_text.lower() for keyword in keywords)
TextHasKeyword(t, keywords) == \E i \in 1..Len(t.lines) : LineHasKeyword(t.lines[i], keywords)

\* response_text[:200] + '...' if len(response_text) > 200 else response_text
Shortened(t) == [lines |-> t.lines, truncated |-> t.chars > 200]

\* result.get(key, default) on the object a reply parsed to
GetList(obj, key) == IF key \in obj.keys THEN obj.list ELSE List(<<>>)
GetMetrics(obj) == IF "metrics" \in obj.keys THEN obj.metrics ELSE Metrics(5, 5, 5, 5)
GetSummaryOrEmpty(obj) ==
    IF "summary" \in obj.keys THEN [lines |-> <<obj.summary>>, truncated |-> FALSE]
    ELSE [lines |-> <<>>, truncated |-> FALSE]
GetSummary(obj) ==
    IF "summary" \in obj.keys THEN [lines |-> <<obj.summary>>, truncated |-> FALSE]
    ELSE [lines |-> << <<"Analysis", "completed">> >>, truncated |-> FALSE]
GetScore(obj, key) == IF key \in obj.keys THEN obj.score ELSE 5

\* the keywords each task kind looks for in a reply that is no JSON
review_keywords ==
    {"security", "vulnerability", "performance", "issue", "problem", "error", "bug"}
security_keywords ==
    {"vulnerability", "security", "injection", "xss", "csrf", "authentication",
     "authorization", "encryption"}
performance_keywords ==
    {"performance", "slow", "inefficient", "optimization", "memory", "cpu", "bottleneck",
     "complexity"}

\* the loop over the lines of the three plain-text parsers: a line with a keyword
\* opens an issue, a later line starting with one of the starters fills in its remedy
RECURSIVE PlainTextIssues(_, _, _, _, _, _, _)
PlainTextIssues(lines, i, keywords, starters, type, fix_key, issues) ==
    IF i > Len(lines) THEN issues
    ELSE LET line == lines[i]
             n == Len(issues)
         IN IF line = <<>>
            THEN PlainTextIssues(lines, i + 1, keywords, starters, type, fix_key, issues)
            ELSE IF LineHasKeyword(line, keywords)
            THEN PlainTextIssues(lines, i + 1, keywords, starters, type, fix_key,
                                 Append(issues, Issue(type, "medium", 1, line, fix_key, <<>>)))
            ELSE IF n > 0 /\ line[1] \in starters
            THEN PlainTextIssues(lines, i + 1, keywords, starters, type, fix_key,
                                 [issues EXCEPT ![n].fix = Tail(line)])
            ELSE PlainTextIssues(lines, i + 1, keywords, starters, type, fix_key, issues)

\* _parse_plain_text_response(response_text, file_path, code)
_parse_plain_text_response(t, file_path, code) ==
    LET found == PlainTextIssues(t.lines, 1, review_keywords,
                     {"suggestion:", "fix:", "recommendation:"}, "general", "suggestion", <<>>)
        issues == IF found # <<>> THEN found
                  ELSE << Issue("analysis", "info", 1, <<"Code", "analysis", "completed">>,
                                "suggestion",
                                <<"Review", "the", "analysis", "results", "above">>) >>
    IN [NoResult EXCEPT
          !.is = "record",
          !.keys = {"issues", "metrics", "file_path", "analysis_type", "summary"},
          !.issues = List(issues),
          !.metrics = Metrics(5, 5, 5, 5),
          !.file_path = file_path,
          !.analysis_type = "llm_analysis_plain_text",
          !.summary = Shortened(t)]

\* _parse_security_plain_text_response(response_text, file_path, code)
_parse_security_plain_text_response(t, file_path, code) ==
    LET found == PlainTextIssues(t.lines, 1, security_keywords,
                     {"mitigation:", "fix:", "solution:"}, "security", "mitigation", <<>>)
        security_issues ==
            IF found # <<>> THEN found
            ELSE << Issue("security_analysis", "info", 1,
                          <<"Security", "analysis", "completed">>, "mitigation",
                          <<"Review", "the", "security", "analysis", "results", "above">>) >>
    IN [NoResult EXCEPT
          !.is = "record",
          !.keys = {"security_issues", "overall_security_score", "file_path", "analysis_type",
                    "recommendations"},
          !.issues = List(security_issues),
          !.score = 5,
          !.file_path = file_path,
          !.analysis_type = "llm_security_plain_text",
          !.notes = t.lines]

\* _parse_performance_plain_text_response(response_text, file_path, code)
_parse_performance_plain_text_response(t, file_path, code) ==
    LET found == PlainTextIssues(t.lines, 1, performance_keywords,
                     {"optimization:", "fix:", "improvement:"}, "performance", "optimization", <<>>)
        performance_issues ==
            IF found # <<>> THEN found
            ELSE << Issue("performance_analysis", "info", 1,
                          <<"Performance", "analysis", "completed">>, "optimization",
                          <<"Review", "the", "performance", "analysis", "results", "above">>) >>
    IN [NoResult EXCEPT
          !.is = "record",
          !.keys = {"performance_issues", "overall_performance_score", "file_path",
                    "analysis_type", "optimization_opportunities"},
          !.issues = List(performance_issues),
          !.score = 5,
          !.file_path = file_path,
          !.analysis_type = "llm_performance_plain_text",
          !.notes = t.lines]

-----------------------------------------------------------------------------
(* The top-level calls of src/tools.py *)

\* the lines of a code as texts
CodeLines(code) == [i \in 1..Len(code) |-> code[i].words]

\* _analyze_single_chunk(code, file_path, llm): r is what llm.invoke(prompt) returned,
\* prompt_raises tells that building the prompt raised (then invoke is not called)
_analyze_single_chunk(code, file_path, r, prompt_raises) ==
    IF prompt_raises \/ r.is = "raised" THEN _fallback_analysis(code, file_path)
    ELSE IF r.is = "None" THEN _fallback_analysis(code, file_path)
    ELSE LET t == response_text(r)
         IN IF HasJsonSpan(t) /\ t.json = "object"
            THEN [NoResult EXCEPT
                    !.is = "record",
                    !.keys = {"issues", "metrics", "file_path", "analysis_type", "summary"},
                    !.issues = GetList(t.obj, "issues"),
                    !.metrics = GetMetrics(t.obj),
                    !.file_path = file_path,
                    !.analysis_type = "llm_analysis",
                    !.summary = GetSummary(t.obj)]
            ELSE IF TextHasKeyword(t, review_keywords)
            THEN _parse_plain_text_response(t, file_path, code)
            ELSE _fallback_analysis(code, file_path)

\* the loop over the chunk results raises: an 'issues' that cannot be iterated, a
\* 'line' that is no number (issue['line'] += i * 800), a 'metrics' without .get
ReconcileRaises(results) ==
    \E i \in 1..Len(results) :
        \/ results[i].issues.shape # "list"
        \/ \E j \in 1..Len(results[i].issues.items) : results[i].issues.items[j].line_type = "str"
        \/ results[i].metrics.shape # "dict"

ShiftLinesFromSecondChunk(items, i) ==
    [j \in 1..Len(items) |->
        IF items[j].line_type = "int" /\ i > 0
        THEN [items[j] EXCEPT !.line = @ + (i - 1) * ChunkMaxTokens]
        ELSE items[j]]
\* issue['line'] += i * 800 on the issues of chunk i (i from 0)
ShiftLines(items, i) ==
    [j \in 1..Len(items) |->
        IF items[j].line_type = "int" THEN [items[j] EXCEPT !.line = @ + i * ChunkMaxTokens]
        ELSE items[j]]

RECURSIVE AllIssues(_, _)
AllIssues(results, i) ==
    IF i > Len(results) THEN <<>>
    ELSE ShiftLines(results[i].issues.items, i - 1) \o AllIssues(results, i + 1)

MetricGetOrZero(m, k) == IF k \in m.has THEN m.vals[k] ELSE 0
\* m.get(k, 5) on the metrics of a chunk
MetricGet(m, k) == IF k \in m.has THEN m.vals[k] ELSE 5

\* sum(m.get(k, 5) for m in all_metrics)
RECURSIVE SumMetric(_, _, _)
SumMetric(results, i, k) ==
    IF i > Len(results) THEN 0
    ELSE MetricGet(results[i].metrics, k) + SumMetric(results, i + 1, k)

\* the results the loop of analyze_code_with_chunking obtains from _analyze_single_chunk,
\* chunk after chunk
ChunkResults(code, file_path, replies, prompt_raises) ==
    LET chunks == chunk_code(code, ChunkMaxTokens, ChunkOverlap)
    IN [i \in 1..Len(chunks) |->
           _analyze_single_chunk(chunks[i], ChunkPath(file_path, i), replies[i], prompt_raises)]

\* the number of chunks the loop analyses: it is left at the first chunk whose issues
\* cannot be iterated or shifted (a 'metrics' without .get raises after the loop)
Analysed(results) ==
    LET bad == { i \in 1..Len(results) :
                    \/ results[i].issues.shape # "list"
                    \/ \E j \in 1..Len(results[i].issues.items) :
                          results[i].issues.items[j].line_type = "str" }
    IN IF bad = {} THEN Len(results) ELSE CHOOSE i \in bad : \A k \in bad : i <= k

\* what is kept of a chunk's result: its provenance, its metrics and its issues as
\* _analyze_single_chunk returned them
Obtained(r) == [analysis_type |-> r.analysis_type, metrics |-> r.metrics, issues |-> r.issues]

\* analyze_code_with_chunking(code, file_path, llm): replies[i] is what llm.invoke
\* returned for chunk i
analyze_code_with_chunking(code, file_path, replies, prompt_raises) ==
    LET chunks == chunk_code(code, ChunkMaxTokens, ChunkOverlap)
        n == Len(chunks)
        results == ChunkResults(code, file_path, replies, prompt_raises)
        all_issues == AllIssues(results, 1) \o production_standards
    IN IF n = 1 THEN _analyze_single_chunk(chunks[1], file_path, replies[1], prompt_raises)
       ELSE IF ReconcileRaises(results) THEN Raised
       ELSE [NoResult EXCEPT
               !.is = "record",
               !.keys = {"issues", "metrics", "file_path", "analysis_type", "summary"},
               !.issues = List(all_issues),
               !.metrics = [shape |-> "dict", has |-> MetricNames,
                            vals |-> [k \in MetricNames |-> SumMetric(results, 1, k)],
                            den |-> n],
               !.file_path = file_path,
               !.analysis_type = "chunked_llm_analysis",
               !.summary = [lines |-> << <<"Analyzed", ToString(n), "chunks,", "found",
                                          ToString(Len(all_issues)), "total", "issues">> >>,
                            truncated |-> FALSE]]

ToolCatchesValueErrorOnly(exc) == IsSubclass(exc, "ValueError")
\* except Exception as e: (the outer handler of each top-level call)
ToolCatches(exc) == IsSubclass(exc, "Exception")

\* analyze_code(code, file_path); provider is what get_llm_provider returned, as a truth value
analyze_code(code, file_path, provider, replies, prompt_raises) ==
    IF ~provider THEN _fallback_analysis(code, file_path)
    ELSE LET r == analyze_code_with_chunking(code, file_path, replies, prompt_raises)
         IN IF r.is # "raised" THEN r
            ELSE IF ToolCatches("TypeError") THEN _fallback_analysis(code, file_path)
            ELSE Raised

\* analyze_security(code, file_path)
analyze_security(code, file_path, provider, r, prompt_raises) ==
    IF ~provider THEN _fallback_security_analysis(code, file_path)
    ELSE IF prompt_raises \/ r.is = "raised"
    THEN (IF ToolCatches("KeyError") THEN _fallback_security_analysis(code, file_path)
          ELSE Raised)
    ELSE LET t == response_text(r)
         IN IF HasJsonSpan(t) /\ t.json = "object"
            THEN [NoResult EXCEPT
                    !.is = "record",
                    !.keys = {"security_issues", "overall_security_score", "file_path",
                              "analysis_type", "recommendations"},
                    !.issues = GetList(t.obj, "security_issues"),
                    !.score = GetScore(t.obj, "overall_security_score"),
                    !.file_path = file_path,
                    !.analysis_type = "llm_security"]
            ELSE _parse_security_plain_text_response(t, file_path, code)

\* analyze_performance(code, file_path)
analyze_performance(code, file_path, provider, r, prompt_raises) ==
    IF ~provider THEN _fallback_performance_analysis(code, file_path)
    ELSE IF prompt_raises \/ r.is = "raised"
    THEN (IF ToolCatches("KeyError") THEN _fallback_performance_analysis(code, file_path)
          ELSE Raised)
    ELSE LET t == response_text(r)
         IN IF HasJsonSpan(t) /\ t.json = "object"
            THEN [NoResult EXCEPT
                    !.is = "record",
                    !.keys = {"performance_issues", "overall_performance_score", "file_path",
                              "analysis_type", "optimization_opportunities"},
                    !.issues = GetList(t.obj, "performance_issues"),
                    !.score = GetScore(t.obj, "overall_performance_score"),
                    !.file_path = file_path,
                    !.analysis_type = "llm_performance"]
            ELSE _parse_performance_plain_text_response(t, file_path, code)

\* a line that opens or closes a code block ([fence] stands for three backquotes)
IsFence(line) == line # <<>> /\ line[1] \in {"[fence]", "[fence]python"}

\* _extract_code_from_response(response, original_code): the lines between the first
\* two fences, the original code when there is no code block
_extract_code_from_response(r, original_code) ==
    LET lines == response_text(r).lines
        fences == { i \in 1..Len(lines) : IsFence(lines[i]) }
    IN IF Cardinality(fences) < 2 THEN CodeLines(original_code)
       ELSE LET first == CHOOSE i \in fences : \A k \in fences : i <= k
                second == CHOOSE j \in fences \ {first} : \A k \in fences \ {first} : j <= k
            IN SubSeq(lines, first + 1, second - 1)

\* str.replace on a line of code, word by word
ReplaceWord(line, old, new) == [j \in 1..Len(line) |-> IF line[j] = old THEN new ELSE line[j]]
ReplaceInLines(lines, old, new) == [i \in 1..Len(lines) |-> ReplaceWord(lines[i], old, new)]

\* improved_code.replace('def ', 'def ' + '\n    """Add docstring here."""\n    ')
RECURSIVE AddDocstrings(_)
AddDocstrings(lines) ==
    IF lines = <<>> THEN <<>>
    ELSE LET line == Head(lines)
         IN (IF Len(line) > 1 /\ line[1] = "def"
             THEN << <<"def">>, <<"\"\"\"Add", "docstring", "here.\"\"\"">>, Tail(line) >>
             ELSE <<line>>)
            \o AddDocstrings(Tail(lines))

\* what _fallback_improve_code does to the code for one issue
ImproveFor(issue, lines) ==
    LET description == LowerAll(issue.description)
    IN IF issue.type = "security"
       THEN IF Contains(description, <<"shell", "injection">>)
            THEN ReplaceInLines(lines, "shell=True)", "shell=False)")
            ELSE IF Contains(description, <<"command", "injection">>)
            THEN << <<"#", "SECURITY:", "Review", "subprocess", "usage", "for", "command",
                      "injection">> >> \o lines
            ELSE IF Contains(description, <<"unvalidated", "user", "input">>)
            THEN << <<"#", "SECURITY:", "Add", "input", "validation">> >> \o lines
            ELSE lines
       ELSE IF issue.type = "performance"
       THEN IF Contains(description, <<"string", "concatenation">>)
            THEN lines
            ELSE IF Contains(description, <<"nested", "loops">>)
            THEN << <<"#", "PERFORMANCE:", "Consider", "optimizing", "nested", "loops">> >>
                 \o lines
            ELSE lines
       ELSE IF issue.type = "maintainability"
       THEN IF Contains(description, <<"missing", "docstring">>)
            THEN AddDocstrings(lines)
            ELSE IF Contains(description, <<"bare", "except">>)
            THEN ReplaceInLines(lines, "except:", "except Exception:")
            ELSE lines
       ELSE lines

RECURSIVE ImproveAll(_, _, _)
ImproveAll(issues, i, lines) ==
    IF i > Len(issues) THEN lines ELSE ImproveAll(issues, i + 1, ImproveFor(issues[i], lines))

\* _fallback_improve_code(code, issues, file_path)
_fallback_improve_code(code, issues, file_path) ==
    [NoResult EXCEPT
       !.is = "record",
       !.keys = {"improved_code"},
       !.improved_code = ImproveAll(issues, 1, CodeLines(code))]

\* the issues handed to improve_code: lists of issue objects with a type and a description
IssueLists ==
    { <<>>,
      << Issue("security", "high", 1, <<"Shell", "injection", "risk">>, "suggestion", <<>>) >>,
      << Issue("maintainability", "low", 1, <<"Function", "missing", "docstring">>,
               "suggestion", <<>>),
         Issue("security", "high", 1, <<"Command", "injection", "vulnerability">>,
               "suggestion", <<>>) >> }

\* improve_code(code, issues, file_path)
improve_code(code, issues, file_path, provider, r, prompt_raises) ==
    IF ~provider THEN _fallback_improve_code(code, issues, file_path)
    ELSE IF prompt_raises \/ r.is = "raised"
    THEN (IF ToolCatches("KeyError") THEN _fallback_improve_code(code, issues, file_path)
          ELSE Raised)
    ELSE [NoResult EXCEPT
            !.is = "record",
            !.keys = {"improved_code"},
            !.improved_code = _extract_code_from_response(r, code)]

\* improve_documentation(code, file_path)
improve_documentation(code, file_path, provider, r, prompt_raises) ==
    IF ~provider
    THEN [NoResult EXCEPT
            !.is = "record",
            !.keys = {"improved_code", "file_path", "doc_improved"},
            !.improved_code = CodeLines(code),
            !.file_path = file_path]
    ELSE IF prompt_raises \/ r.is = "raised"
    THEN (IF ToolCatches("KeyError")
          THEN [NoResult EXCEPT
                  !.is = "record", !.keys = {"improved_code"}, !.improved_code = CodeLines(code)]
          ELSE Raised)
    ELSE [NoResult EXCEPT
            !.is = "record",
            !.keys = {"improved_code"},
            !.improved_code = _extract_code_from_response(r, code)]

-----------------------------------------------------------------------------
(* Top-level calls as steps *)

\* no call made yet
NoArgs == [code |-> <<>>, file_path |-> [name |-> "", chunk |-> 0], max_tokens |-> 0, overlap |-> 0]
NoLocals == [chunks |-> <<>>, results |-> <<>>, loop |-> <<>>]

\* the arguments of a call that does not chunk its code
CodeOnly(code, file_path) ==
    [code |-> code, file_path |-> file_path, max_tokens |-> 0, overlap |-> 0]

Tools ==
    {"analyze_code", "improve_code", "analyze_security", "analyze_performance",
     "improve_documentation"}

\* the number of top-level calls a run makes
MaxCalls == 2

ReusesBoundProvider(prev) == prev = NoneClient
\* get_llm_provider: llm_provider = create_llm_provider(config), whatever was bound before
Constructs(prev) == TRUE

\* a top-level call starts: get_llm_provider constructs an LLMProvider, whose __init__
\* runs _setup_llm
StartCall ==
    /\ pc \in {"idle", "returned"}
    /\ calls < MaxCalls
    /\ \E t \in Tools : tool' = t
    /\ calls' = calls + 1
    /\ result' = NoResult
    /\ invocations' = 0
    /\ response' = NoResponse
    /\ reply' = NoReply
    /\ IF Constructs(llm)
       THEN /\ resolutions' = resolutions + 1
            /\ llm' = NoneClient
            /\ current_provider' = NoProvider
            /\ pc' = "HuggingFace"
       ELSE /\ pc' = "ready"
            /\ UNCHANGED <<resolutions, llm, current_provider>>
    /\ args' = NoArgs
    /\ locals' = NoLocals
    /\ UNCHANGED <<variant, observation, crews>>

\* what the bound client answers to each of the prompts
ClientAnswers(l, prompts) ==
    IF l = FallbackLLM THEN { [i \in 1..Len(prompts) |-> FallbackInvoke(prompts[i])] }
    ELSE [1..Len(prompts) -> ToolResponses]

\* the call returns res, after LLMProvider.invoke calls answered by resps; invoked tells
\* whether the prompts could be built, so that invoke was called at all; a and l are
\* the call's arguments and local values
Return(res, resps, invoked, a, l) ==
    /\ result' = res
    /\ args' = a
    /\ locals' = l
    /\ invocations' = IF invoked THEN Len(resps) ELSE 0
    /\ response' = IF invoked THEN resps[Len(resps)] ELSE NoResponse
    /\ reply' = IF invoked THEN invoke(resps[Len(resps)]) ELSE NoReply
    /\ pc' = "returned"
    /\ UNCHANGED <<variant, llm, current_provider, observation, tool, calls, resolutions, crews>>

AnalyzeCode ==
    /\ tool = "analyze_code"
    /\ pc \in {"ready", "raised"}
    /\ \E code \in Codes, file_path \in file_paths, prompt_raises \in BOOLEAN :
          LET chunks == chunk_code(code, ChunkMaxTokens, ChunkOverlap)
              prompts == [i \in 1..Len(chunks) |->
                             FormatPrompt("code_analysis", chunks[i],
                                          IF Len(chunks) = 1 THEN file_path
                                          ELSE ChunkPath(file_path, i))]
          IN \E resps \in ClientAnswers(llm, prompts) :
                LET replies == [i \in 1..Len(chunks) |-> invoke(resps[i])]
                    results == ChunkResults(code, file_path, replies, prompt_raises)
                    n == IF Len(chunks) = 1 THEN 1 ELSE Analysed(results)
                IN Return(analyze_code(code, file_path, pc = "ready", replies, prompt_raises),
                          SubSeq(resps, 1, n), pc = "ready" /\ ~prompt_raises,
                          [code |-> code, file_path |-> file_path, max_tokens |-> ChunkMaxTokens,
                           overlap |-> ChunkOverlap],
                          IF pc # "ready" THEN NoLocals
                          ELSE [chunks |-> chunks,
                                results |-> IF Len(chunks) = 1 THEN <<>>
                                            ELSE [i \in 1..n |-> Obtained(results[i])],
                                loop |-> NoLocals.loop])

ImproveCode ==
    /\ tool = "improve_code"
    /\ pc \in {"ready", "raised"}
    /\ \E code \in Codes, issues \in IssueLists, file_path \in file_paths,
          prompt_raises \in BOOLEAN :
          \E resps \in ClientAnswers(llm, <<FormatPrompt("code_improvement", code, file_path)>>) :
             Return(improve_code(code, issues, file_path, pc = "ready", invoke(resps[1]),
                                 prompt_raises),
                    resps, pc = "ready" /\ ~prompt_raises, CodeOnly(code, file_path), NoLocals)

AnalyzeSecurity ==
    /\ tool = "analyze_security"
    /\ pc \in {"ready", "raised"}
    /\ \E code \in Codes, file_path \in file_paths, prompt_raises \in BOOLEAN :
          \E resps \in ClientAnswers(llm, <<FormatPrompt("security_analysis", code, file_path)>>) :
             Return(analyze_security(code, file_path, pc = "ready", invoke(resps[1]),
                                     prompt_raises),
                    resps, pc = "ready" /\ ~prompt_raises, CodeOnly(code, file_path), NoLocals)

AnalyzePerformance ==
    /\ tool = "analyze_performance"
    /\ pc \in {"ready", "raised"}
    /\ \E code \in Codes, file_path \in file_paths, prompt_raises \in BOOLEAN :
          \E resps \in ClientAnswers(llm, <<FormatPrompt("performance_analysis", code, file_path)>>) :
             Return(analyze_performance(code, file_path, pc = "ready", invoke(resps[1]),
                                        prompt_raises),
                    resps, pc = "ready" /\ ~prompt_raises, CodeOnly(code, file_path), NoLocals)

ImproveDocumentation ==
    /\ tool = "improve_documentation"
    /\ pc \in {"ready", "raised"}
    /\ \E code \in Codes, file_path \in file_paths, prompt_raises \in BOOLEAN :
          \E resps \in ClientAnswers(llm, <<FormatPrompt("documentation_improvement", code,
                                                         file_path)>>) :
             Return(improve_documentation(code, file_path, pc = "ready", invoke(resps[1]),
                                          prompt_raises),
                    resps, pc = "ready" /\ ~prompt_raises, CodeOnly(code, file_path), NoLocals)

-----------------------------------------------------------------------------
(* Specification of one LLMProvider: create_llm_provider(config), then invoke calls *)

\* LLMProvider.__init__ up to the call of _setup_llm
Init ==
    /\ pc = "HuggingFace"
    /\ llm = NoneClient
    /\ current_provider = NoProvider
    /\ variant = 0
    /\ env = [p \in Remote |-> "unread"]
    /\ status = [p \in Remote |-> "untried"]
    /\ cur = NoCalls
    /\ netCalls = 0
    /\ response = NoResponse
    /\ reply = NoReply
    /\ tool = "create_llm_provider"
    /\ invocations = 0
    /\ calls = 0
    /\ resolutions = 1
    /\ result = NoResult
    /\ args = NoArgs
    /\ locals = NoLocals
    /\ crews = 0

Next ==
    \/ TryHuggingface
    \/ TryGoogleGenai
    \/ TryGroq
    \/ TryOpenai
    \/ CreateFallback
    \/ Invoke

Spec == Init /\ [][Next]_vars

-----------------------------------------------------------------------------
(* Specification of a run of top-level calls *)

\* before the first top-level call
InitTools ==
    /\ pc = "idle"
    /\ llm = NoneClient
    /\ current_provider = NoProvider
    /\ variant = 0
    /\ env = [p \in Remote |-> "unread"]
    /\ status = [p \in Remote |-> "untried"]
    /\ cur = NoCalls
    /\ netCalls = 0
    /\ response = NoResponse
    /\ reply = NoReply
    /\ invocations = 0
    /\ tool = "idle"
    /\ calls = 0
    /\ resolutions = 0
    /\ result = NoResult
    /\ args = NoArgs
    /\ locals = NoLocals
    /\ crews = 0

NextTools ==
    \/ StartCall
    \/ TryHuggingface
    \/ TryGoogleGenai
    \/ TryGroq
    \/ TryOpenai
    \/ CreateFallback
    \/ AnalyzeCode
    \/ ImproveCode
    \/ AnalyzeSecurity
    \/ AnalyzePerformance
    \/ ImproveDocumentation

SpecTools == InitTools /\ [][NextTools]_vars

-----------------------------------------------------------------------------
(* Specification of chunk_code on its own: a text, max_tokens and overlap are chosen
   and chunk_code is applied to them *)

\* the number of lines of the texts
MaxLines == 4

\* the lengths of their lines: 1 character (no token), 8 (2 tokens), 40 (10 tokens)
LineLengths == {1, 8, 40}

\* line i of a text, of n characters; it starts with its number, so that no two
\* lines of a text are equal
TextLine(i, n) ==
    [words |-> IF n = 1 THEN <<ToString(i)>> ELSE <<ToString(i), "#", "...">>, len |-> n]

\* code.split('\n') of the texts: the empty text is one line without characters
Texts ==
    { <<Lblank>> }
    \cup UNION { { [i \in 1..n |-> TextLine(i, lens[i])] : lens \in [1..n -> LineLengths] } :
                 n \in 1..MaxLines }

TokenLimits == {0, 2, 10, 12, 20}
Overlaps == {0, 2, 10}

InitChunk ==
    /\ pc = "chunk_code"
    /\ tool = "chunk_code"
    /\ args \in [code : Texts, file_path : {NoPath}, max_tokens : TokenLimits, overlap : Overlaps]
    /\ locals = NoLocals
    /\ llm = NoneClient
    /\ current_provider = NoProvider
    /\ variant = 0
    /\ env = [p \in Remote |-> "unread"]
    /\ status = [p \in Remote |-> "untried"]
    /\ cur = NoCalls
    /\ netCalls = 0
    /\ response = NoResponse
    /\ reply = NoReply
    /\ invocations = 0
    /\ calls = 0
    /\ resolutions = 0
    /\ result = NoResult
    /\ crews = 0

\* chunks = chunk_code(code, max_tokens, overlap)
ChunkCode ==
    /\ tool = "chunk_code"
    /\ pc = "chunk_code"
    /\ locals' = [chunks |-> chunk_code(args.code, args.max_tokens, args.overlap),
                  results |-> <<>>,
                  loop |-> ChunkPasses(args.code, args.max_tokens, args.overlap)]
    /\ pc' = "returned"
    /\ UNCHANGED <<variant, llm, current_provider, observation, response, reply, tool,
                   invocations, calls, resolutions, result, args, crews>>

NextChunk == ChunkCode

SpecChunk == InitChunk /\ [][NextChunk]_vars

-----------------------------------------------------------------------------
(* CodeReviewAgents of src/agents.py *)

\* LLMProvider.name: the name of the bound client when it has one (the FallbackLLM
\* has "fallback_llm"; a remote client has none, or one of its own that is not
\* "fallback_llm"), else current_provider
provider_name(l, cp) == IF l = FallbackLLM THEN <<"fallback_llm">> ELSE cp

\* hasattr(self.llm, 'name') and self.llm.name == "fallback_llm"
FallbackMode(l, cp) == provider_name(l, cp) = <<"fallback_llm">>

\* sub in line, for the substrings _run_fallback_review looks for and the lines of the
\* vocabulary
InHits ==
    { <<"eval(", Leval>>, <<"=", Lassign>>, <<"=", Lshell>>, <<"=", Lmid>>, <<"=", Lwide>>,
      <<"=", Llong>> }
In(sub, line) == <<sub, line>> \in InHits

\* lines = code.split('\n') if code else []
ReviewLines(code) == IF code = <<Lblank>> THEN <<>> ELSE code

\* the issues the loop of _run_fallback_review appends for line i
LineIssues(line, i) ==
    (IF In("eval(", line)
     THEN << Issue("security", "critical", i, <<"Use", "of", "eval()", "function", "detected">>,
                   "suggestion", <<"Replace", "eval()", "with", "safer", "alternatives">>) >>
     ELSE <<>>)
    \o (IF In("system(", line)
        THEN << Issue("security", "critical", i, <<"Command", "injection", "vulnerability",
                      "detected">>, "suggestion", <<"Use", "proper", "input", "validation">>) >>
        ELSE <<>>)
    \o (IF In("password", line) /\ In("=", line)
        THEN << Issue("security", "high", i, <<"Hardcoded", "password", "detected">>,
                      "suggestion", <<"Use", "environment", "variables">>) >>
        ELSE <<>>)
    \o (IF In("api_key", line) /\ In("=", line)
        THEN << Issue("security", "high", i, <<"Hardcoded", "API", "key", "detected">>,
                      "suggestion", <<"Use", "environment", "variables">>) >>
        ELSE <<>>)
    \o (IF In("for ", line) /\ In(" in ", line)
        THEN << Issue("performance", "medium", i, <<"Nested", "loops", "detected">>,
                      "suggestion", <<"Consider", "optimizing", "nested", "loops">>) >>
        ELSE <<>>)
    \o (IF In("+=", line) /\ In("\"", line)
        THEN << Issue("performance", "medium", i, <<"Inefficient", "string", "concatenation",
                      "detected">>, "suggestion", <<"Use", "join()">>) >>
        ELSE <<>>)
    \o (IF line.len > 120
        THEN << Issue("maintainability", "low", i, <<"Line", "too", "long">>,
                      "suggestion", <<"Break", "long", "lines">>) >>
        ELSE <<>>)

RECURSIVE ReviewLoop(_, _)
ReviewLoop(lines, i) ==
    IF i > Len(lines) THEN <<>> ELSE LineIssues(lines[i], i) \o ReviewLoop(lines, i + 1)

\* len([i for i in issues if i['type'] == type])
CountType(issues, type) == Cardinality({ i \in 1..Len(issues) : issues[i].type = type })

\* _run_fallback_review(code, file_path)
_run_fallback_review(code, file_path) ==
    LET lines == ReviewLines(code)
        issues ==
            ReviewLoop(lines, 1)
            \o (IF \E i \in 1..Len(code) : In("$", code[i])
                THEN << Issue("maintainability", "medium", 1, <<"Global", "variables", "detected">>,
                              "suggestion", <<"Avoid", "global", "variables">>) >>
                ELSE <<>>)
            \o (IF \E i \in 1..Len(code) : In("class String", code[i]) \/ In("class Array", code[i])
                THEN << Issue("maintainability", "high", 1, <<"Monkey", "patching", "detected">>,
                              "suggestion", <<"Avoid", "monkey", "patching">>) >>
                ELSE <<>>)
        security_issues == CountType(issues, "security")
        performance_issues == CountType(issues, "performance")
        maintainability_issues == CountType(issues, "maintainability")
    IN [NoResult EXCEPT
          !.is = "record",
          !.keys = {"file_path", "issues", "improved_code", "metrics", "summary", "raw_result"},
          !.file_path = file_path,
          !.issues = List(issues),
          !.improved_code = CodeLines(code),
          !.metrics = Metrics(Min(10, Len(lines) \div 5),
                              Max(1, 10 - maintainability_issues),
                              Max(1, 10 - security_issues * 2),
                              Max(1, 10 - performance_issues)),
          !.summary = [lines |-> << <<"Fallback", "analysis", "completed.", "Found",
                                     ToString(Len(issues)), "issues:",
                                     ToString(security_issues), "security,",
                                     ToString(performance_issues), "performance,",
                                     ToString(maintainability_issues), "maintainability.">> >>,
                       truncated |-> FALSE]]

\* _parse_review_results(result, original_code, file_path), result a str: the fields of
\* the JSON object in it; the defaults when there is none or json.loads raises
\* JSONDecodeError
_parse_review_results(t, original_code, file_path) ==
    IF t.json = "object"
    THEN [NoResult EXCEPT
            !.is = "record",
            !.keys = {"file_path", "issues", "improved_code", "metrics", "summary", "raw_result"},
            !.file_path = file_path,
            !.issues = GetList(t.obj, "issues"),
            !.improved_code = CodeLines(original_code),
            !.metrics = GetMetrics(t.obj),
            !.summary = [lines |-> IF "summary" \in t.obj.keys THEN <<t.obj.summary>> ELSE <<>>,
                         truncated |-> FALSE]]
    ELSE [NoResult EXCEPT
            !.is = "record",
            !.keys = {"file_path", "issues", "improved_code", "metrics", "summary", "raw_result"},
            !.file_path = file_path,
            !.issues = List(<<>>),
            !.improved_code = CodeLines(original_code),
            !.metrics = Metrics(5, 5, 5, 5),
            !.summary = [lines |-> t.lines, truncated |-> FALSE]]

\* a str a method returns, as its lines
Str(lines) == [NoResult EXCEPT !.is = "str", !.improved_code = lines]

\* _extract_improved_code(result), result a str: the inside of the first code block,
\* the whole stripped text when there is none (a JSON text is one line)
_extract_improved_code(t) ==
    LET fences == { i \in 1..Len(t.lines) : IsFence(t.lines[i]) }
    IN IF Cardinality(fences) >= 2
       THEN LET first == CHOOSE i \in fences : \A k \in fences : i <= k
                second == CHOOSE j \in fences \ {first} : \A k \in fences \ {first} : j <= k
            IN Str(SubSeq(t.lines, first + 1, second - 1))
       ELSE IF t.json # "none" THEN Str(<< <<"{", "...", "}">> >>)
       ELSE Str(t.lines)

\* what crewai does with a Task, a Crew and crew.kickoff(): one of the three raises, or
\* kickoff returns a str, or an object that is no str
CrewTexts == { JsonReview, MalformedNoKeyword, PlainNoKeyword, CodeBlock }
CrewOutcomes ==
    { [raises |-> r, kind |-> "none", text |-> NoText] : r \in {"Task", "Crew", "kickoff"} }
    \cup { [raises |-> "none", kind |-> "str", text |-> t] : t \in CrewTexts }
    \cup { [raises |-> "none", kind |-> "object", text |-> NoText] }

\* the try block does not reach its return: Task, Crew or kickoff raised, or the
\* result of kickoff has no str methods
CrewFails(o) == o.raises # "none" \/ o.kind # "str"

\* Crew(...) returned a crew, which was kicked off
CrewCreated(o) == o.raises \in {"kickoff", "none"}

\* run_code_review(code, requirements, file_path)
run_code_review(code, file_path, l, cp, o) ==
    IF FallbackMode(l, cp) THEN _run_fallback_review(code, file_path)
    ELSE IF CrewFails(o) THEN _run_fallback_review(code, file_path)
    ELSE _parse_review_results(o.text, code, file_path)

\* run_code_improvement(original_code, issues, file_path)
run_code_improvement(original_code, o) ==
    IF CrewFails(o) THEN Str(CodeLines(original_code)) ELSE _extract_improved_code(o.text)

\* run_documentation_improvement(code, file_path)
run_documentation_improvement(code, o) ==
    IF CrewFails(o) THEN Str(CodeLines(code)) ELSE _extract_improved_code(o.text)

AgentCalls == {"run_code_review", "run_code_improvement", "run_documentation_improvement"}

\* the LLMProvider.invoke calls a kicked-off crew can make
MaxCrewInvokes == 1

\* the code arguments of the methods
ReviewCodes == { <<Lblank>>, <<Leval, Ldef>>, <<Lassign, Llong>> }

\* CodeReviewAgents.__init__: after _setup_llm, whose except binds the class's own
\* FallbackLLM (of the same name), _setup_agents creates the five agents
SetupAgents ==
    /\ tool = "setup_agents"
    /\ pc \in {"ready", "raised"}
    /\ llm' = IF pc = "raised" THEN FallbackLLM ELSE llm
    /\ pc' = "agents"
    /\ UNCHANGED <<variant, current_provider, observation, response, reply, callerVars>>

\* a method of the instance returns res; crew tells whether it created a crew and
\* kicked it off, n the LLMProvider.invoke calls the crew made
AgentReturn(name, code, file_path, res, crew, n) ==
    /\ pc \in {"agents", "returned"}
    /\ calls < MaxCalls
    /\ tool' = name
    /\ calls' = calls + 1
    /\ args' = CodeOnly(code, file_path)
    /\ locals' = NoLocals
    /\ result' = res
    /\ crews' = IF crew THEN 1 ELSE 0
    /\ invocations' = IF crew THEN n ELSE 0
    /\ pc' = "returned"
    /\ UNCHANGED <<variant, llm, current_provider, observation, response, reply, resolutions>>

RunCodeReview ==
    /\ tool \in AgentCalls \cup {"setup_agents"}
    /\ \E code \in ReviewCodes, file_path \in file_paths, o \in CrewOutcomes,
          n \in 0..MaxCrewInvokes :
          AgentReturn("run_code_review", code, file_path,
                      run_code_review(code, file_path, llm, current_provider, o),
                      ~FallbackMode(llm, current_provider) /\ CrewCreated(o), n)

RunCodeImprovement ==
    /\ tool \in AgentCalls \cup {"setup_agents"}
    /\ \E code \in ReviewCodes, file_path \in file_paths, o \in CrewOutcomes,
          n \in 0..MaxCrewInvokes :
          AgentReturn("run_code_improvement", code, file_path,
                      run_code_improvement(code, o),
                      CrewCreated(o), n)

RunDocumentationImprovement ==
    /\ tool \in AgentCalls \cup {"setup_agents"}
    /\ \E code \in ReviewCodes, file_path \in file_paths, o \in CrewOutcomes,
          n \in 0..MaxCrewInvokes :
          AgentReturn("run_documentation_improvement", code, file_path,
                      run_documentation_improvement(code, o),
                      CrewCreated(o), n)

\* setup_agents(llm_config): CodeReviewAgents.__init__ up to the call of _setup_llm,
\* whose create_llm_provider constructs an LLMProvider
InitAgents ==
    /\ pc = "HuggingFace"
    /\ tool = "setup_agents"
    /\ llm = NoneClient
    /\ current_provider = NoProvider
    /\ variant = 0
    /\ env = [p \in Remote |-> "unread"]
    /\ status = [p \in Remote |-> "untried"]
    /\ cur = NoCalls
    /\ netCalls = 0
    /\ response = NoResponse
    /\ reply = NoReply
    /\ invocations = 0
    /\ calls = 0
    /\ resolutions = 1
    /\ result = NoResult
    /\ args = NoArgs
    /\ locals = NoLocals
    /\ crews = 0

NextAgents ==
    \/ TryHuggingface
    \/ TryGoogleGenai
    \/ TryGroq
    \/ TryOpenai
    \/ CreateFallback
    \/ SetupAgents
    \/ RunCodeReview
    \/ RunCodeImprovement
    \/ RunDocumentationImprovement

SpecAgents == InitAgents /\ [][NextAgents]_vars

-----------------------------------------------------------------------------
(* Properties of provider resolution and of LLMProvider.invoke *)

RemoteClients == UNION { { Client(p, i) : i \in 1..Len(models_to_try(p)) } : p \in Remote }

\* a step of the loop of _setup_llm
Resolve == TryHuggingface \/ TryGoogleGenai \/ TryGroq \/ TryOpenai \/ CreateFallback

\* the providers before and after p in the list
Before(p) == { q \in Remote : Index(q) < Index(p) }
After(p) == { q \in Remote : Index(q) > Index(p) }

\* C1: constructing an LLMProvider never raises to its caller and always ends: whatever
\* the libraries, the credentials, the constructors and the probes do, _setup_llm is
\* never left by an exception, it can always take its next step until it has returned,
\* and when it has returned llm is bound to a remote client or to the fallback client.
C1_SetupNeverRaisesAndBinds ==
    /\ pc # "raised"
    /\ pc = "ready" =>
          /\ llm \in RemoteClients \cup {FallbackLLM}
          /\ current_provider # NoProvider
    /\ pc # "ready" =>
          /\ pc \in { providers[i] : i \in 1..Len(providers) }
          /\ pc \in Remote => variant \in 0..Len(models_to_try(pc))
          /\ llm = NoneClient
          /\ ENABLED Resolve

\* C1 witness: resolution went through raising constructors and probes and through a
\* missing library, and ended bound to the fallback client
C1_Witness ==
    /\ pc = "ready"
    /\ llm = FallbackLLM
    /\ status["HuggingFace"] = "ctor_raised"
    /\ status["Google Gemini"] = "quota"
    /\ status["Groq"] = "failed"
    /\ env["OpenAI"] = "no_lib"

\* C2: providers are tried in the fixed order HuggingFace, Google Gemini, Groq, OpenAI,
\* Fallback; resolution commits to the first one whose probe returned a non-empty reply,
\* never to one whose probe was empty or raised, and constructs and probes nothing of
\* the providers after the committed one.
C2_FirstSuccessfulProbeCommits ==
    /\ \A p \in Remote :
          /\ status[p] # "untried" => \A q \in Before(p) : status[q] \notin {"untried", "bound"}
          /\ status[p] = "bound" =>
                /\ pc = "ready"
                /\ llm.class = ClientClass(p)
                /\ cur.p = p /\ cur.ok
                /\ \A q \in After(p) : status[q] = "untried" /\ env[q] = "unread"
          /\ (pc = "ready" /\ llm.class = ClientClass(p)) => status[p] = "bound"
    /\ (pc = "ready" /\ llm = FallbackLLM) => \A p \in Remote : status[p] \notin {"untried", "bound"}

\* C2 witness: Groq is committed on its third variant after two failing ones, with
\* HuggingFace and Google Gemini tried before it and OpenAI never touched
C2_Witness ==
    /\ pc = "ready"
    /\ status["Groq"] = "bound"
    /\ llm = Client("Groq", 3)
    /\ cur.ctor = 3
    /\ status["HuggingFace"] = "probe_empty"
    /\ status["Google Gemini"] = "failed"
    /\ status["OpenAI"] = "untried"

\* C3: a remote provider whose library is not installed or whose credential is absent
\* is skipped with no client constructed and no network call; when all four are
\* skipped, resolution commits to the fallback (provider 'fallback', fallback_mode
\* True) with zero network calls.
C3_MissingProviderSkippedOffline ==
    /\ \A p \in Remote :
          env[p] \in {"no_lib", "no_credential"} =>
              /\ status[p] = "skipped"
              /\ cur.p = p => cur.ctor = 0 /\ cur.net = 0
    /\ (\A p \in Remote : env[p] \in {"no_lib", "no_credential"}) =>
          /\ netCalls = 0
          /\ pc \in {"Fallback", "ready"}
          /\ pc = "ready" =>
                /\ llm = FallbackLLM
                /\ get_provider_info.provider = <<"fallback">>
                /\ get_provider_info.fallback_mode

\* C3 witness: all four remote providers skipped, two for the library and two for the
\* credential, and the fallback committed
C3_Witness ==
    /\ pc = "ready"
    /\ env["HuggingFace"] = "no_credential"
    /\ env["Google Gemini"] = "no_lib"
    /\ env["Groq"] = "no_credential"
    /\ env["OpenAI"] = "no_lib"
    /\ get_provider_info.fallback_mode
    /\ netCalls = 0

\* C4: for Google Gemini, Groq and OpenAI, when the first variant's construction or
\* probe raises an error whose text contains '429', 'quota' or 'rate', no other variant
\* of that provider is constructed or probed.
C4_FirstQuotaErrorEndsProvider ==
    \A p \in {"Google Gemini", "Groq", "OpenAI"} :
        (cur.p = p /\ cur.firstQuota) => cur.ctor = 1 /\ (pc = p => variant = 0)

\* C4 witness: the first Groq variant raised a quota error and _try_groq went on to
\* construct its second variant
C4_Witness ==
    /\ cur.p = "Groq"
    /\ cur.firstQuota
    /\ cur.ctor = 2

\* C5: LLMProvider.invoke changes neither llm nor current_provider, whatever the bound
\* client does (the binding is frozen once resolution has returned).
C5_InvokeKeepsBinding ==
    [][pc = "ready" => (llm' = llm /\ current_provider' = current_provider)]_vars

\* C5 witness: a bound remote client raised on invoke and the binding is still that client
C5_Witness ==
    /\ pc = "ready"
    /\ response.kind = "raise"
    /\ llm = Client("Google Gemini", 2)
    /\ current_provider = <<"google_genai", "gemini-1.5-flash">>

OnlyHuggingfaceAndItRaises ==
    /\ env["HuggingFace"] = "ok"
    /\ status["HuggingFace"] \in {"token_rejected", "probe_raised"}
    /\ \A q \in Remote \ {"HuggingFace"} : env[q] = "no_credential"

CannedReplies == { invoke(FallbackInvoke(prompt)) : prompt \in Prompts }

SeveralVariants == { p \in Remote : Len(models_to_try(p)) > 1 }

-----------------------------------------------------------------------------
(* Properties of the top-level calls *)

\* C6: every top-level call performs its own full provider resolution: after N calls
\* started an LLMProvider was constructed N times, and the call in progress resolves
\* from an unbound provider, whatever an earlier call had bound.
C6_EveryCallResolvesAnew ==
    /\ resolutions = calls
    /\ (tool \in Tools /\ pc \notin {"ready", "raised", "returned"}) => llm = NoneClient

\* C6 witness: a second call has resolved on its own and returned
C6_Witness ==
    /\ calls = 2
    /\ resolutions = 2
    /\ pc = "returned"
    /\ tool = "analyze_security"
    /\ llm = Client("Groq", 2)

FallbackTag(t) ==
    CASE t = "analyze_code" -> "fallback_analysis"
      [] t = "analyze_security" -> "fallback_security"
      [] t = "analyze_performance" -> "fallback_performance"

\* C10: for review, security scan and performance scan, when the backend invocation
\* yields None the call returns the static fallback analyzer's result, tagged
\* fallback_analysis / fallback_security / fallback_performance.
C10_NoneReplyGivesStaticFallback ==
    (/\ pc = "returned"
     /\ tool \in {"analyze_code", "analyze_security", "analyze_performance"}
     /\ invocations = 1
     /\ reply = NoneReply)
    => result.analysis_type = FallbackTag(tool)

\* C10 witness: the backend of a security scan yielded None and the result is tagged
\* as the backend's plain-text answer
C10_Witness ==
    /\ pc = "returned"
    /\ tool = "analyze_security"
    /\ invocations = 1
    /\ reply = NoneReply
    /\ result.analysis_type = "llm_security_plain_text"

\* review, security scan and performance scan
AnalysisTools == {"analyze_code", "analyze_security", "analyze_performance"}

\* the keyword set of each task kind
TaskKeywords(t) ==
    CASE t = "analyze_code" -> review_keywords
      [] t = "analyze_security" -> security_keywords
      [] t = "analyze_performance" -> performance_keywords

\* C11: for every task kind, a reply that holds no parseable JSON object and none of
\* the task kind's keywords is not actionable: the call returns the static fallback
\* analyzer's result, tagged fallback_analysis / fallback_security /
\* fallback_performance; review, security and performance take the same decision.
C11_UnusableReplyGivesStaticFallback ==
    (/\ pc = "returned"
     /\ tool \in AnalysisTools
     /\ invocations = 1
     /\ reply.is = "value"
     /\ reply.value.json # "object"
     /\ ~TextHasKeyword(reply.value, TaskKeywords(tool)))
    => result.analysis_type = FallbackTag(tool)

\* C11 witness: a security scan whose backend replied "Looks good to me." returned a
\* result tagged as the backend's plain-text answer
C11_Witness ==
    /\ pc = "returned"
    /\ tool = "analyze_security"
    /\ invocations = 1
    /\ reply = Value(PlainNoKeyword)
    /\ result.analysis_type = "llm_security_plain_text"
    /\ result.score = 5

\* C12: when resolution committed to the deterministic fallback client, every result
\* of analyze_code, analyze_security and analyze_performance carries static-fallback
\* provenance (fallback_*), whatever canned reply the fallback client gave.
C12_FallbackClientGivesStaticProvenance ==
    (pc = "returned" /\ tool \in AnalysisTools /\ llm = FallbackLLM)
    => result.analysis_type = FallbackTag(tool)

\* C12 witness: a review answered by the fallback client's canned reply returned a
\* result tagged as a backend's plain-text answer
C12_Witness ==
    /\ pc = "returned"
    /\ tool = "analyze_code"
    /\ llm = FallbackLLM
    /\ current_provider = <<"fallback">>
    /\ invocations = 1
    /\ reply \in { invoke(FallbackInvoke(<<"check", "Security">>)) }
    /\ result.analysis_type = "llm_analysis_plain_text"

\* the provenance tags of results the backend's JSON alone produced
RemoteTags == {"llm_analysis", "chunked_llm_analysis"}

\* C13: the provenance tag is never silently mixed: when the result of some chunk of
\* a multi-chunk analysis came from the static fallback analyzer or from the
\* plain-text extractor, the combined result is not tagged as a remote (LLM) result.
C13_MixedChunksNotTaggedRemote ==
    (/\ pc = "returned"
     /\ tool = "analyze_code"
     /\ Len(locals.results) > 1
     /\ \E i \in 1..Len(locals.results) :
           locals.results[i].analysis_type \in {"fallback_analysis", "llm_analysis_plain_text"})
    => result.analysis_type \notin RemoteTags

\* C13 witness: both chunks of a file were analysed by the static fallback analyzer
\* and the combined result is tagged chunked_llm_analysis
C13_Witness ==
    /\ pc = "returned"
    /\ tool = "analyze_code"
    /\ Len(locals.results) = 2
    /\ \A i \in 1..2 : locals.results[i].analysis_type = "fallback_analysis"
    /\ result.analysis_type = "chunked_llm_analysis"

\* the issue types that name a security finding
SecurityTypes == {"security", "security_analysis"}

\* C14: for the review reply "I found a security vulnerability on line 4." (no JSON,
\* a review keyword in a sentence about security) the call returns at least one issue
\* whose type is security-related, tagged llm_analysis_plain_text, and does not fall
\* back to the static analyzer.
C14_SecuritySentenceGivesSecurityIssue ==
    (/\ pc = "returned"
     /\ tool = "analyze_code"
     /\ invocations = 1
     /\ reply = Value(SecuritySentence))
    => /\ result.analysis_type = "llm_analysis_plain_text"
       /\ \E i \in 1..Len(result.issues.items) : result.issues.items[i].type \in SecurityTypes

\* C14 witness: the reply was taken as plain text and its one issue has type general
C14_Witness ==
    /\ pc = "returned"
    /\ tool = "analyze_code"
    /\ invocations = 1
    /\ reply = Value(SecuritySentence)
    /\ result.analysis_type = "llm_analysis_plain_text"
    /\ Len(result.issues.items) = 1
    /\ result.issues.items[1].type = "general"

\* the total of field k over the metrics the chunks reported, 5 standing for a field
\* a chunk did not report
RECURSIVE FieldTotal(_, _)
FieldTotal(rs, k) ==
    IF rs = <<>> THEN 0
    ELSE (IF k \in Head(rs).metrics.has THEN Head(rs).metrics.vals[k] ELSE 5)
         + FieldTotal(Tail(rs), k)

\* C17: when more than one chunk is analysed, each of the four combined metric fields
\* is the arithmetic mean of that field over all the chunks (its total divided by the
\* number of chunks), a chunk whose metrics lack the field contributing 5.
C17_CombinedMetricsAreMeans ==
    (/\ pc = "returned"
     /\ tool = "analyze_code"
     /\ Len(locals.chunks) > 1
     /\ result.analysis_type = "chunked_llm_analysis")
    => /\ Len(locals.results) = Len(locals.chunks)
       /\ result.metrics.shape = "dict"
       /\ result.metrics.has = MetricNames
       /\ result.metrics.den = Len(locals.chunks)
       /\ \A k \in MetricNames : result.metrics.vals[k] = FieldTotal(locals.results, k)

\* C17 witness: two chunks, the first reporting complexity_score 8 only, the second
\* the scores 4, 7, 2, 6: the combined scores are 12/2, 12/2, 7/2 and 11/2
C17_Witness ==
    /\ pc = "returned"
    /\ tool = "analyze_code"
    /\ Len(locals.chunks) = 2
    /\ locals.results[1].metrics.has = {"complexity_score"}
    /\ locals.results[2].metrics = Metrics(4, 7, 2, 6)
    /\ result.metrics.den = 2
    /\ result.metrics.vals["complexity_score"] = 12
    /\ result.metrics.vals["maintainability_score"] = 12
    /\ result.metrics.vals["security_score"] = 7
    /\ result.metrics.vals["performance_score"] = 11

\* the source text has a line of 130 characters
HasLongLine(code) == \E i \in 1..Len(code) : code[i].len = 130

\* C18: for a source text with a line of 130 characters, the result of the static
\* fallback analyzer has an issue of type maintainability with severity low.
C18_LongLineGivesMaintainabilityIssue ==
    (/\ pc = "returned"
     /\ tool = "analyze_code"
     /\ result.analysis_type = "fallback_analysis"
     /\ HasLongLine(args.code))
    => \E i \in 1..Len(result.issues.items) :
          /\ result.issues.items[i].type = "maintainability"
          /\ result.issues.items[i].severity = "low"

\* C18 witness: analyze_code on an assignment followed by a line of 130 characters fell
\* back to _fallback_analysis, which returned its two fixed issues only
C18_Witness ==
    /\ pc = "returned"
    /\ tool = "analyze_code"
    /\ args.code = <<Lassign, Llong>>
    /\ result = _fallback_analysis(args.code, result.file_path)
    /\ result.issues.items = production_standards

-----------------------------------------------------------------------------
(* Properties of chunk_code *)

\* the estimated cost of a text: the sum over its lines of len(line) // 4
RECURSIVE EstimatedCost(_)
EstimatedCost(lines) ==
    IF lines = <<>> THEN 0 ELSE (Head(lines).len \div 4) + EstimatedCost(Tail(lines))

\* C15: for a text whose estimated cost does not exceed max_tokens, the empty text
\* included, chunk_code returns exactly one chunk, equal to the text; for every input
\* it returns at least one chunk.
C15_ShortTextIsOneChunk ==
    (pc = "returned" /\ tool = "chunk_code") =>
        /\ Len(locals.chunks) >= 1
        /\ EstimatedCost(args.code) <= args.max_tokens => locals.chunks = <<args.code>>

\* C15 witness: a text of three lines whose cost is exactly max_tokens came back as
\* one chunk
C15_Witness ==
    /\ pc = "returned"
    /\ tool = "chunk_code"
    /\ Len(args.code) = 3
    /\ args.max_tokens = 12
    /\ EstimatedCost(args.code) = 12
    /\ locals.chunks = <<args.code>>

\* two chunks have a line in common
Shares(a, b) == \E i \in 1..Len(a) : \E j \in 1..Len(b) : a[i] = b[j]

\* C16: whenever overlap > 0 and chunk_code returns more than one chunk,
\* every two adjacent chunks have a line in common.
C16_AdjacentChunksShareALine ==
    (pc = "returned" /\ tool = "chunk_code" /\ args.overlap > 0 /\ Len(locals.chunks) > 1) =>
        \A k \in 1..(Len(locals.chunks) - 1) : Shares(locals.chunks[k], locals.chunks[k + 1])

\* C16 witness: two lines of 10 tokens with max_tokens 10 and overlap 2 came back as
\* two chunks of one line each, the second without the line of the first
C16_Witness ==
    /\ pc = "returned"
    /\ tool = "chunk_code"
    /\ args.overlap = 2
    /\ args.max_tokens = 10
    /\ Len(args.code) = 2
    /\ locals.chunks = << <<args.code[1]>>, <<args.code[2]>> >>

-----------------------------------------------------------------------------
(* Properties of CodeReviewAgents *)

\* C19: when the provider committed for a CodeReviewAgents instance is the
\* deterministic fallback, run_code_review returns the static fallback review (its
\* summary mentions fallback, file_path is echoed, improved_code is the input code)
\* without creating a crew or calling the backend, and run_code_improvement and
\* run_documentation_improvement return the original code unchanged.
C19_FallbackModeLeavesCodeAlone ==
    (pc = "returned" /\ tool \in AgentCalls /\ llm = FallbackLLM) =>
        /\ tool = "run_code_review" =>
               /\ ContainsLower(result.summary.lines[1], <<"fallback">>)
               /\ result.file_path = args.file_path
               /\ result.improved_code = CodeLines(args.code)
               /\ crews = 0
               /\ invocations = 0
        /\ tool # "run_code_review" => result = Str(CodeLines(args.code))

\* C19 witness: on an instance bound to the FallbackLLM, run_code_improvement created
\* a crew, kicked it off and returned the code block of the crew's answer, not the
\* code it was given
C19_Witness ==
    /\ pc = "returned"
    /\ tool = "run_code_improvement"
    /\ llm = FallbackLLM
    /\ crews = 1
    /\ args.code = <<Lassign, Llong>>
    /\ result = _extract_improved_code(CodeBlock)
    /\ result # Str(CodeLines(args.code))

-----------------------------------------------------------------------------
(* Properties of the loop of chunk_code *)

\* C21: after every pass of the loop of chunk_code, current_length is the sum of the
\* estimates len(l) // 4 of the lines in current_chunk; in particular the counter of a
\* chunk just opened is the cost of the seeded overlap lines plus that of the line
\* that caused the split.
C21_CounterIsCostOfCurrentChunk ==
    (pc = "returned" /\ tool = "chunk_code") =>
        \A i \in 1..Len(locals.loop) :
            locals.loop[i].current_length = EstimatedCost(locals.loop[i].current_chunk)

\* C21 witness: a line of 2 tokens then one of 10 with max_tokens 10 and overlap 2: the
\* second pass closed the first chunk and opened one with both lines, of cost 12, with
\* the counter at 4
C21_Witness ==
    /\ pc = "returned"
    /\ tool = "chunk_code"
    /\ args.max_tokens = 10
    /\ args.overlap = 2
    /\ Len(args.code) = 2
    /\ locals.loop[2].chunks = << <<args.code[1]>> >>
    /\ locals.loop[2].current_chunk = args.code
    /\ EstimatedCost(locals.loop[2].current_chunk) = 12
    /\ locals.loop[2].current_length = 4

\* C22: every chunk chunk_code returns costs at most max_tokens, except a chunk of one
\* line that alone costs more.
C22_ChunksAreTokenBounded ==
    (pc = "returned" /\ tool = "chunk_code") =>
        \A k \in 1..Len(locals.chunks) :
            \/ EstimatedCost(locals.chunks[k]) <= args.max_tokens
            \/ Len(locals.chunks[k]) = 1

\* C22 witness: lines of 2, 10 and 2 tokens with max_tokens 10 and overlap 2 came back
\* as the first line, then all three lines in one chunk of cost 14
C22_Witness ==
    /\ pc = "returned"
    /\ tool = "chunk_code"
    /\ args.max_tokens = 10
    /\ args.overlap = 2
    /\ Len(args.code) = 3
    /\ locals.chunks = << <<args.code[1]>>, args.code >>
    /\ EstimatedCost(args.code) = 14

\* the place of a line in the text (the lines of a text are all different)
Place(code, line) == CHOOSE i \in 1..Len(code) : code[i] = line

\* C23: chunk_code loses and reorders nothing: every chunk is a run of consecutive
\* lines of the text, the first chunk starts at the first line, the last one ends at
\* the last line, each chunk after the first starts inside the chunk before it or
\* right after it (its seeded lines are a trailing run of that chunk) and ends
\* further on (it has at least one new line); so the new lines of the chunks, joined,
\* are the text, and there are no more chunks than lines.
C23_ChunksCoverTheTextInOrder ==
    (pc = "returned" /\ tool = "chunk_code") =>
        LET code == args.code
            chunks == locals.chunks
            n == Len(chunks)
            first == [k \in 1..n |-> Place(code, chunks[k][1])]
            last == [k \in 1..n |-> Place(code, chunks[k][Len(chunks[k])])]
        IN /\ n <= Len(code)
           /\ \A k \in 1..n : chunks[k] # <<>> /\ chunks[k] = SubSeq(code, first[k], last[k])
           /\ first[1] = 1
           /\ last[n] = Len(code)
           /\ \A k \in 2..n :
                 /\ first[k - 1] <= first[k]
                 /\ first[k] <= last[k - 1] + 1
                 /\ last[k - 1] < last[k]

\* C23 witness: four lines came back as three chunks, the second seeded with the line
\* of the first, the third starting with a new line
C23_Witness ==
    /\ pc = "returned"
    /\ tool = "chunk_code"
    /\ Len(args.code) = 4
    /\ args.overlap = 2
    /\ locals.chunks = << <<args.code[1]>>, <<args.code[1], args.code[2]>>,
                          <<args.code[3], args.code[4]>> >>

-----------------------------------------------------------------------------
(* Properties of the reconciliation of the chunks *)

\* a call of analyze_code on several chunks returned the combined result
CombinedReturned ==
    /\ pc = "returned"
    /\ tool = "analyze_code"
    /\ Len(locals.chunks) > 1
    /\ result.analysis_type = "chunked_llm_analysis"

\* the number of issues of the chunks before chunk i
RECURSIVE IssuesBefore(_, _)
IssuesBefore(rs, i) ==
    IF i = 1 THEN 0 ELSE IssuesBefore(rs, i - 1) + Len(rs[i - 1].issues.items)

\* the issues of the chunks are in the combined list in chunk order, the line of each
\* issue of chunk i (from 0) raised by i * max_tokens
ChunkIssuesInOrder ==
    \A i \in 1..Len(locals.results) :
        \A j \in 1..Len(locals.results[i].issues.items) :
            LET issue == locals.results[i].issues.items[j]
                at == IssuesBefore(locals.results, i) + j
            IN /\ at <= Len(result.issues.items)
               /\ result.issues.items[at] = [issue EXCEPT !.line = @ + (i - 1) * ChunkMaxTokens]

\* C24 as stated: the combined issue list of a multi-chunk analysis is the concatenation
\* of the issue lists of the chunks in chunk order, the line of every issue of chunk i
\* raised by i * max_tokens (800).
C24_CombinedIssuesAreTheChunkIssues ==
    CombinedReturned =>
        /\ ChunkIssuesInOrder
        /\ Len(result.issues.items)
              = IssuesBefore(locals.results, Len(locals.results) + 1)

\* C24: the combined issue list of a multi-chunk analysis is the concatenation of the
\* issue lists of the chunks in chunk order, the line of every issue of chunk i raised
\* by i * max_tokens (800), followed by the two fixed best_practice issues.
C24_CombinedIssuesThenStandards ==
    CombinedReturned =>
        LET total == IssuesBefore(locals.results, Len(locals.results) + 1)
        IN /\ ChunkIssuesInOrder
           /\ Len(result.issues.items) = total + 2
           /\ SubSeq(result.issues.items, total + 1, total + 2) = production_standards

\* C24 witness: both chunks of a file were answered with the JSON review, whose issue
\* is on line 3: the combined list has it on line 3, then on line 803, then the two
\* fixed issues
C24_Witness ==
    /\ CombinedReturned
    /\ Len(locals.results) = 2
    /\ \A i \in 1..2 : locals.results[i].issues = JsonReview.obj.list
    /\ Len(result.issues.items) = 4
    /\ result.issues.items[1].line = 3
    /\ result.issues.items[2].line = 3 + ChunkMaxTokens

\* C25: in a call of analyze_code over more than one chunk the backend is invoked
\* exactly once per chunk, in chunk order; a failure on one chunk does not keep the
\* later chunks from being analysed.
C25_EveryChunkIsInvokedOnce ==
    (pc = "returned" /\ tool = "analyze_code" /\ Len(locals.chunks) > 1 /\ invocations > 0) =>
        /\ invocations = Len(locals.chunks)
        /\ Len(locals.results) = Len(locals.chunks)

\* C25 witness: the reply for the first of two chunks was a JSON object whose 'issues'
\* is a number; the loop was left there, the second chunk was never sent, and the call
\* returned the static analysis of the whole file
C25_Witness ==
    /\ pc = "returned"
    /\ tool = "analyze_code"
    /\ Len(locals.chunks) = 2
    /\ invocations = 1
    /\ reply = Value(JsonBadShapes)
    /\ Len(locals.results) = 1
    /\ result = _fallback_analysis(args.code, args.file_path)

-----------------------------------------------------------------------------
(* Properties of the JSON step of _analyze_single_chunk *)

\* analyze_code on a file of one chunk got a reply whose span from the first '{' to the
\* last '}' parses as a JSON object
JsonObjectReply ==
    /\ pc = "returned"
    /\ tool = "analyze_code"
    /\ Len(locals.chunks) = 1
    /\ invocations = 1
    /\ reply.is = "value"
    /\ reply.value.json = "object"

\* issues and metrics come from the object, an empty list and four scores of 5 when
\* absent, and the result is tagged llm_analysis
IssuesAndMetricsFromObject ==
    LET obj == reply.value.obj
    IN /\ result.analysis_type = "llm_analysis"
       /\ result.file_path = args.file_path
       /\ result.issues = IF "issues" \in obj.keys THEN obj.list
                          ELSE [shape |-> "list", items |-> <<>>]
       /\ result.metrics = IF "metrics" \in obj.keys THEN obj.metrics
                           ELSE [shape |-> "dict", has |-> MetricNames,
                                 vals |-> [k \in MetricNames |-> 5], den |-> 1]

\* C26 as stated: for a review reply that parses as a JSON object the result takes
\* issues, metrics and summary from it, with an empty list, four scores of 5 and the
\* raw reply text for an absent field, and is tagged llm_analysis.
C26_JsonDefaultsWithRawTextSummary ==
    JsonObjectReply =>
        /\ IssuesAndMetricsFromObject
        /\ result.summary.lines = IF "summary" \in reply.value.obj.keys
                                  THEN <<reply.value.obj.summary>>
                                  ELSE reply.value.lines

\* C26: for a review reply that parses as a JSON object the result takes issues,
\* metrics and summary from it, with an empty list, four scores of 5 and the fixed
\* text 'Analysis completed' for an absent field, and is tagged llm_analysis.
C26_JsonDefaultsWithFixedSummary ==
    JsonObjectReply =>
        /\ IssuesAndMetricsFromObject
        /\ result.summary.lines = IF "summary" \in reply.value.obj.keys
                                  THEN <<reply.value.obj.summary>>
                                  ELSE << <<"Analysis", "completed">> >>

\* C26 witness: the reply was the object with one metric and nothing else; the result
\* has no issues, that metrics object and the summary 'Analysis completed'
C26_Witness ==
    /\ JsonObjectReply
    /\ reply = Value(JsonPartialMetrics)
    /\ result.issues.items = <<>>
    /\ result.metrics = JsonPartialMetrics.obj.metrics
    /\ result.summary.lines = << <<"Analysis", "completed">> >>

-----------------------------------------------------------------------------
(* Properties of the results of the static analyzers *)

\* the two fixed reminders, whatever line they were moved to
IsStandard(issue) ==
    \E k \in 1..2 : issue = [production_standards[k] EXCEPT !.line = issue.line]

\* C27: every result of the static fallback analyzer has exactly two best_practice
\* issues, the style-guideline and the error-handling reminder, after all its other
\* issues, and a multi-chunk result has them exactly once.
C27_TwoRemindersExactlyOnce ==
    (pc = "returned" /\ tool = "analyze_code"
        /\ result.analysis_type \in {"fallback_analysis", "chunked_llm_analysis"}) =>
        LET items == result.issues.items
        IN /\ Len(items) >= 2
           /\ SubSeq(items, Len(items) - 1, Len(items)) = production_standards
           /\ Cardinality({ i \in 1..Len(items) : IsStandard(items[i]) }) = 2
           /\ CountType(items, "best_practice") = 2

\* C27 witness: both chunks of a file were analysed by _fallback_analysis and the
\* combined result has the two reminders three times: from each chunk and from
\* analyze_code_with_chunking itself
C27_Witness ==
    /\ CombinedReturned
    /\ Len(locals.results) = 2
    /\ \A i \in 1..2 : locals.results[i].analysis_type = "fallback_analysis"
    /\ Cardinality({ i \in 1..Len(result.issues.items) : IsStandard(result.issues.items[i]) }) = 6

\* a call of run_code_review returned the static review of _run_fallback_review
StaticReviewReturned ==
    /\ pc = "returned"
    /\ tool = "run_code_review"
    /\ result = _run_fallback_review(args.code, args.file_path)

\* C28: every metric of every result of a static fallback analysis lies in 1..10, also
\* for the empty text and for texts of fewer than five lines.
C28_StaticMetricsInRange ==
    StaticReviewReturned =>
        \A k \in MetricNames : result.metrics.vals[k] \in 1..10

\* C28 witness: the static review of a text of two lines has complexity_score 0
C28_Witness ==
    /\ StaticReviewReturned
    /\ Len(args.code) = 2
    /\ result.metrics.vals["complexity_score"] = 0

\* the ceiling of the three scores: the score of a result without issues of the
\* category
Ceiling == 5

\* C29: in the result of the static fallback analyzer security_score,
\* performance_score and maintainability_score are max(1, ceiling - k), k the number
\* of issues of that category in the result.
C29_ScoresCountIssuesOfTheirCategory ==
    (pc = "returned" /\ tool = "analyze_code" /\ result.analysis_type = "fallback_analysis") =>
        \A c \in {"security", "performance", "maintainability"} :
            LET k == CountType(result.issues.items, c)
                score == result.metrics.vals[IF c = "security" THEN "security_score"
                                             ELSE IF c = "performance" THEN "performance_score"
                                             ELSE "maintainability_score"]
            IN score = Max(1, Ceiling - k)

\* C29 witness: the static analysis of a text without findings has no maintainability
\* issue and maintainability_score 3
C29_Witness ==
    /\ pc = "returned"
    /\ tool = "analyze_code"
    /\ result.analysis_type = "fallback_analysis"
    /\ args.code = <<Lassign>>
    /\ CountType(result.issues.items, "maintainability") = 0
    /\ result.metrics.vals["maintainability_score"] = 3

-----------------------------------------------------------------------------
(* Properties of the binding of a constructed LLMProvider *)

\* the current_provider value the _try_* method of a remote client assigns with it
NameOf(l) ==
    IF l.class = "HuggingFaceEndpoint" THEN <<"huggingface">>
    ELSE <<ProviderPrefix(CHOOSE p \in Remote : ClientClass(p) = l.class), l.model>>

\* C30: once an LLMProvider is constructed, llm is not None, current_provider is not
\* None and names the bound client, and get_provider_info().fallback_mode is true
\* exactly when the bound client is the fallback client; an attempt that did not end
\* bound leaves no current_provider behind.
C30_ProviderNamesTheBoundClient ==
    /\ pc = "ready" =>
          /\ llm # NoneClient
          /\ current_provider # NoProvider
          /\ get_provider_info.available
          /\ get_provider_info.fallback_mode <=> llm = FallbackLLM
          /\ llm # FallbackLLM => current_provider = NameOf(llm)
    /\ pc # "ready" =>
          /\ llm = NoneClient
          /\ current_provider = NoProvider

\* C30 witness: the variants of Google Gemini all failed, the second variant of Groq
\* was bound, and a prompt was sent to it: current_provider names that client and
\* fallback_mode is false
C30_Witness ==
    /\ pc = "ready"
    /\ status["Google Gemini"] = "failed"
    /\ llm = Client("Groq", 2)
    /\ current_provider = <<"groq", "llama3-70b-8192">>
    /\ ~get_provider_info.fallback_mode
    /\ reply # NoReply

====
